---- MODULE Spec2Model ----
(***************************************************************************)
(* Model of the HTE (hardware timestamping engine) core:                   *)
(* request / release / enable / disable of a timestamp line, the push      *)
(* path and the per-line kernel thread, as implemented in the HTE core     *)
(* part of src/drivers/hte/hte-tegra194.c (lines 556-1462).                *)
(*                                                                         *)
(* One hte_device with NLines lines.  Consumers are NThreads concurrent    *)
(* callers that share NDescs descriptors (struct hte_ts_desc).  The memory *)
(* that follows the ei[] table (index NLines) is not part of the state:    *)
(* an access to it is undefined behaviour, recorded in last.oob and        *)
(* resolved as a nondeterministic result.                                  *)
(***************************************************************************)
EXTENDS Integers, Naturals, Sequences, FiniteSets, TLC

\* ---------------------------------------------------------------- bounds
NLines == 4
NUsed == 1
NThreads == 2
NDescs == 2
MaxSeq == 3
MaxOob == 1
E2ELine == 2
DropPushes == 5
NCount == 2
\* Tegra194 provider: number of slices, and the shift that splits a line id
\* into slice and bit (__builtin_ctz(HTE_SLICE_SIZE), 5 on the hardware)
TgSlices == 2
TgSliceShift == 1

\* ------------------------------------------------------ program constants
EINVAL == 22
EUSERS == 87
ENODEV == 19
ENOMEM == 12
EBUSY == 16
ENOTSUPP == 524

Lines == 0 .. (NLines - 1)
\* the lines the consumers of Spec and SpecBounds ask for
UsedLines == 0 .. (NUsed - 1)
Threads == 1 .. NThreads
Descs == 1 .. NDescs
ConIds == UsedLines \cup {NLines, NLines + 1}
PushIds == UsedLines \cup {NLines, NLines + 1}
NULL == 0
NoLine == 0 - 1

\* enum hte_return
CbRets == {"HTE_CB_HANDLED", "HTE_RUN_THREADED_CB", "HTE_CB_TS_DROPPED", "HTE_CB_ERROR"}

\* values a provider hook (ops->request/release/enable/disable) can return
HookRets == {0, 0 - EBUSY, 1}

VARIABLES
    registered,   \* HTE_TS_REGISTERED bit of ei->flags, per line
    disabled,     \* HTE_TS_DISABLE bit of ei->flags, per line
    seq,          \* ei->seq
    dropped,      \* ei->dropped_ts
    cb,           \* ei->cb      (NULL or the consumer that supplied it)
    tcb,          \* ei->tcb     (NULL or the consumer that supplied it)
    cl_data,      \* ei->cl_data (NULL or the consumer's context)
    thread,       \* ei->thread: "null" or the state of the task it points to:
                  \* "created" (kthread_create, never woken), "wait" (in
                  \* _hte_wait_for_ts_data), "tcb" (in ei->tcb), "exited",
                  \* "oops" (killed by the call of a NULL ei->tcb)
    shouldStop,   \* kthread_should_stop() of the task ei->thread points to
    runFlag,      \* HTE_CB_RUN_THREAD bit of ei->hte_cb_flags
    mutex,        \* ei->req_mlock owner (0 = free)
    ts_req,       \* gdev->ts_req
    modRef,       \* references the core holds on gdev->owner
    modLive,      \* the provider module is live (try_module_get succeeds)
    gdevFreed,    \* hte_unregister_chip has freed gdev (chip->gdev dangles)
    chip,         \* the provider's struct hte_chip: which of chip->ops->request,
                  \* release, enable, disable and chip->xlate are set, and
                  \* whether chip->gdev is
    hte_devices,  \* number of devices on the hte_devices list
    hte_lock,     \* holder of the hte_lock spinlock, 0 when it is free
    desc,         \* desc->hte_data of the consumers' descriptors
    desc_name,    \* desc->name of the consumers' descriptors: "null", "consumer"
                  \* (a label the consumer owns), "core" (the label allocated
                  \* in ___hte_req_ts) or "freed" (a pointer to a label that
                  \* has been passed to kfree)
    hte_name,     \* ei->hte_name, per line
    teten,        \* Tegra194 provider: the TETEN register of each slice
    r_val,        \* gs->sl[i].r_val
    sl_flags,     \* HTE_SUSPEND bit of gs->sl[i].flags
    s_lock,       \* holder of gs->sl[i].s_lock, 0 when it is free
    tg_pc,        \* per caller: position in tegra_hte_en_dis_common
    tg_op,        \* per caller: line_id and en of the hook call in progress
    tg_last,      \* the hook call that returned in the step just taken, if any
    pm_pc,        \* position of the power-management callbacks
    pm_i,         \* their loop index i
    pc,           \* per caller: position in the API call in progress
    op,           \* per caller: the call in progress and its arguments
    last,         \* the API call that returned in the step just taken, if any
    delivered,    \* per line: seq values handed to cb in the current registration
    grants,       \* per line: requests granted since the line was last released
    suppressed,   \* per line: a disable succeeded and no enable has since
    values,       \* per line: data->tsc of the timestamps handed to cb, as delivered
    cbDropped,    \* per line: HTE_CB_TS_DROPPED returns of cb in the current registration
    oobPins       \* requests that "succeeded" on the memory past the table

chanVars == <<registered, disabled, seq, dropped, cb, tcb, cl_data, thread,
              shouldStop, runFlag>>
devVars == <<ts_req, modRef, modLive, gdevFreed, chip, hte_devices, hte_lock>>
callVars == <<pc, op>>
ghostVars == <<delivered, grants, suppressed, values, cbDropped, oobPins>>
labelVars == <<desc_name, hte_name>>
tegraVars == <<teten, r_val, sl_flags, s_lock, tg_pc, tg_op, tg_last, pm_pc,
               pm_i>>
coreVars == <<chanVars, mutex, devVars, desc, callVars, last, ghostVars,
              labelVars>>
vars == <<coreVars, tegraVars>>

\* fresh: the line was unregistered when the request was made and has not
\* been released since; seqno: data->seq of the push; cbv, ctx: the ei->cb
\* the push has called and the ei->cl_data it passed
NoOp == [kind |-> "none", d |-> 0, line |-> NoLine, en |-> FALSE, tcb |-> FALSE,
         fresh |-> FALSE, seqno |-> 0, cbv |-> NULL, ctx |-> NULL,
         slk |-> FALSE]

\* ev, line, ret: the call, its line and its return value; invoked: it called
\* ei->cb; reg: it found the line registered; oob: it accessed memory past
\* the table; fresh: see NoOp; hook: it called the provider's hook
\* (chip->ops->request, release, enable or disable); cbret: what ei->cb
\* returned to a push that is followed lock by lock
Last(ev, line, r, invoked, reg, oobAccess, fresh) ==
    [ev |-> ev, line |-> line, ret |-> r, invoked |-> invoked, reg |-> reg,
     oob |-> oobAccess, fresh |-> fresh, hook |-> FALSE, cbret |-> "none"]
NoLast == Last("none", NoLine, 0, FALSE, FALSE, FALSE, FALSE)

\* a chip with every hook, as hte_register_chip leaves it when the provider
\* gave no xlate of its own
RegisteredChip ==
    [request |-> TRUE, release |-> TRUE, enable |-> TRUE, disable |-> TRUE,
     xlate |-> "hte_simple_xlate", gdev |-> TRUE]

\* the kzalloc'ed table of hte_register_chip: every line unregistered
\* ---------------------------------------------------------------------
\* Tegra194 provider (tegra_hte_en_dis_common, tegra_hte_suspend_late,
\* tegra_hte_resume_early)

Slices == 0 .. (TgSlices - 1)
\* tegra_hte_probe: gc->nlines = slices << 5
TgNLines == TgSlices * (2 ^ TgSliceShift)
\* line ids a hook is called with: the lines, nlines and nlines + 1
TgIds == 0 .. (TgNLines + 1)
TgRegs == 0 .. ((2 ^ (2 ^ TgSliceShift)) - 1)
\* the power-management callbacks as holder of an s_lock
TgPm == NThreads + 1

\* slice = line_id >> sl_bit_shift
SliceOf(line_id) == line_id \div (2 ^ TgSliceShift)
\* line_bit = line_id & (HTE_SLICE_SIZE - 1)
LineBitOf(line_id) == line_id % (2 ^ TgSliceShift)

TestBit(val, b) == (val \div (2 ^ b)) % 2 = 1
\* val | (1 << line_bit)
OrBit(val, b) == IF TestBit(val, b) THEN val ELSE val + (2 ^ b)
\* val & (~(1 << line_bit))
AndNotBit(val, b) == IF TestBit(val, b) THEN val - (2 ^ b) ELSE val

NoTgOp == [line |-> 0, en |-> FALSE]
NoTgLast == [t |-> 0, line |-> 0, en |-> FALSE, ret |-> 0]

\* the state tegra_hte_probe leaves
InitTegra ==
    /\ teten = [s \in Slices |-> 0]
    /\ r_val = [s \in Slices |-> 0]
    /\ sl_flags = [s \in Slices |-> FALSE]
    /\ s_lock = [s \in Slices |-> 0]
    /\ tg_pc = [t \in Threads |-> "idle"]
    /\ tg_op = [t \in Threads |-> NoTgOp]
    /\ tg_last = NoTgLast
    /\ pm_pc = "on"
    /\ pm_i = 0

\* tegra_hte_en_dis_common: "if (line_id > chip->nlines) return -EINVAL"
TegraLineRejected(line_id) == line_id > TgNLines

\* tegra_hte_request / release (also .enable / .disable) up to spin_lock
TegraHookCall(t, line_id, en) ==
    /\ tg_pc[t] = "idle"
    /\ IF TegraLineRejected(line_id)
       THEN /\ tg_last' = [t |-> t, line |-> line_id, en |-> en,
                           ret |-> 0 - EINVAL]
            /\ UNCHANGED <<tg_pc, tg_op>>
       ELSE /\ tg_pc' = [tg_pc EXCEPT ![t] = IF line_id = TgNLines
                                             THEN "oob" ELSE "lock"]
            /\ tg_op' = [tg_op EXCEPT ![t] = [line |-> line_id, en |-> en]]
            /\ tg_last' = NoTgLast
    /\ UNCHANGED <<coreVars, teten, r_val, sl_flags, s_lock, pm_pc, pm_i>>

\* spin_lock(&gs->sl[slice].s_lock)
TegraHookLock(t) ==
    LET s == SliceOf(tg_op[t].line) IN
    /\ tg_pc[t] = "lock"
    /\ s_lock[s] = 0
    /\ s_lock' = [s_lock EXCEPT ![s] = t]
    /\ tg_pc' = [tg_pc EXCEPT ![t] = "test"]
    /\ tg_last' = NoTgLast
    /\ UNCHANGED <<coreVars, teten, r_val, sl_flags, tg_op, pm_pc, pm_i>>

TegraSuspended_Never(s) == FALSE
\* test_bit(HTE_SUSPEND, &gs->sl[slice].flags)
TegraSuspended(s) == sl_flags[s]

\* the rest of tegra_hte_en_dis_common under s_lock: -EBUSY when the slice
\* is suspended, else the read-modify-write of TETEN
TegraHookBody(t) ==
    LET s == SliceOf(tg_op[t].line)
        b == LineBitOf(tg_op[t].line)
    IN
    /\ tg_pc[t] = "test"
    /\ IF TegraSuspended(s)
       THEN /\ tg_last' = [t |-> t, line |-> tg_op[t].line,
                           en |-> tg_op[t].en, ret |-> 0 - EBUSY]
            /\ UNCHANGED teten
       ELSE /\ teten' = [teten EXCEPT ![s] = IF tg_op[t].en
                                              THEN OrBit(@, b)
                                              ELSE AndNotBit(@, b)]
            /\ tg_last' = [t |-> t, line |-> tg_op[t].line,
                           en |-> tg_op[t].en, ret |-> 0]
    /\ s_lock' = [s_lock EXCEPT ![s] = 0]
    /\ tg_pc' = [tg_pc EXCEPT ![t] = "idle"]
    /\ tg_op' = [tg_op EXCEPT ![t] = NoTgOp]
    /\ UNCHANGED <<coreVars, r_val, sl_flags, pm_pc, pm_i>>

\* tegra_hte_en_dis_common with line_id == nlines: gs->sl[slice] lies past
\* the array; what is read there decides between -EBUSY and the register
\* access, which is past the slices' TETEN registers
TegraHookOob(t, r) ==
    /\ tg_pc[t] = "oob"
    /\ tg_last' = [t |-> t, line |-> tg_op[t].line, en |-> tg_op[t].en,
                   ret |-> r]
    /\ tg_pc' = [tg_pc EXCEPT ![t] = "idle"]
    /\ tg_op' = [tg_op EXCEPT ![t] = NoTgOp]
    /\ UNCHANGED <<coreVars, teten, r_val, sl_flags, s_lock, pm_pc, pm_i>>

\* tegra_hte_suspend_late up to the loop
TegraSuspendStart ==
    /\ pm_pc = "on"
    /\ pm_pc' = "s_lock"
    /\ pm_i' = 0
    /\ tg_last' = NoTgLast
    /\ UNCHANGED <<coreVars, teten, r_val, sl_flags, s_lock, tg_pc, tg_op>>

\* spin_lock(&gs->sl[i].s_lock) in either loop
TegraPmLock ==
    /\ pm_pc \in {"s_lock", "r_lock"}
    /\ s_lock[pm_i] = 0
    /\ s_lock' = [s_lock EXCEPT ![pm_i] = TgPm]
    /\ pm_pc' = IF pm_pc = "s_lock" THEN "s_save" ELSE "r_write"
    /\ tg_last' = NoTgLast
    /\ UNCHANGED <<coreVars, teten, r_val, sl_flags, tg_pc, tg_op, pm_i>>

\* tegra_hte_suspend_late, loop body under s_lock: r_val = TETEN, set
\* HTE_SUSPEND, unlock, i++
TegraSuspendSave ==
    /\ pm_pc = "s_save"
    /\ r_val' = [r_val EXCEPT ![pm_i] = teten[pm_i]]
    /\ sl_flags' = [sl_flags EXCEPT ![pm_i] = TRUE]
    /\ s_lock' = [s_lock EXCEPT ![pm_i] = 0]
    /\ pm_i' = pm_i + 1
    /\ pm_pc' = IF pm_i + 1 < TgSlices THEN "s_lock" ELSE "off"
    /\ tg_last' = NoTgLast
    /\ UNCHANGED <<coreVars, teten, tg_pc, tg_op>>

\* tegra_hte_resume_early up to the loop
TegraResumeStart ==
    /\ pm_pc = "off"
    /\ pm_pc' = "r_lock"
    /\ pm_i' = 0
    /\ tg_last' = NoTgLast
    /\ UNCHANGED <<coreVars, teten, r_val, sl_flags, s_lock, tg_pc, tg_op>>

\* tegra_hte_resume_early: the value written to TETEN of slice i
ResumeValue(s) == r_val[s]

\* tegra_hte_writel(gs, (i << sl_bit_shift) + HTE_SLICE0_TETEN, r_val)
TegraResumeWrite ==
    /\ pm_pc = "r_write"
    /\ teten' = [teten EXCEPT ![pm_i] = ResumeValue(pm_i)]
    /\ pm_pc' = "r_clear"
    /\ tg_last' = NoTgLast
    /\ UNCHANGED <<coreVars, r_val, sl_flags, s_lock, tg_pc, tg_op, pm_i>>

\* clear_bit(HTE_SUSPEND, &gs->sl[i].flags), unlock, i++
TegraResumeClear ==
    /\ pm_pc = "r_clear"
    /\ sl_flags' = [sl_flags EXCEPT ![pm_i] = FALSE]
    /\ s_lock' = [s_lock EXCEPT ![pm_i] = 0]
    /\ pm_i' = pm_i + 1
    /\ pm_pc' = IF pm_i + 1 < TgSlices THEN "r_lock" ELSE "on"
    /\ tg_last' = NoTgLast
    /\ UNCHANGED <<coreVars, teten, r_val, tg_pc, tg_op>>

InitLines ==
    /\ InitTegra
    /\ registered = [c \in Lines |-> FALSE]
    /\ disabled = [c \in Lines |-> FALSE]
    /\ seq = [c \in Lines |-> 0]
    /\ dropped = [c \in Lines |-> 0]
    /\ cb = [c \in Lines |-> NULL]
    /\ tcb = [c \in Lines |-> NULL]
    /\ cl_data = [c \in Lines |-> NULL]
    /\ thread = [c \in Lines |-> "null"]
    /\ shouldStop = [c \in Lines |-> FALSE]
    /\ runFlag = [c \in Lines |-> FALSE]
    /\ mutex = [c \in Lines |-> 0]
    /\ ts_req = 0
    /\ modRef = 0
    /\ modLive = TRUE
    /\ gdevFreed = FALSE
    /\ hte_lock = 0
    /\ desc = [d \in Descs |-> NoLine]
    /\ pc = [t \in Threads |-> "idle"]
    /\ op = [t \in Threads |-> NoOp]
    /\ last = NoLast
    /\ delivered = [c \in Lines |-> <<>>]
    /\ grants = [c \in Lines |-> 0]
    /\ suppressed = [c \in Lines |-> FALSE]
    /\ values = [c \in Lines |-> <<>>]
    /\ cbDropped = [c \in Lines |-> 0]
    /\ oobPins = 0
    /\ hte_name = [c \in Lines |-> FALSE]

\* the state after a successful hte_register_chip
Init ==
    /\ InitLines
    /\ chip = RegisteredChip
    /\ hte_devices = 1
    /\ desc_name = [d \in Descs |-> "consumer"]

\* the state before hte_register_chip, for each chip a provider can pass
InitReg ==
    /\ InitLines
    /\ chip \in [request : BOOLEAN, release : BOOLEAN, enable : BOOLEAN,
                 disable : BOOLEAN, xlate : {"NULL", "own"}, gdev : {FALSE}]
    /\ hte_devices = 0
    /\ desc_name = [d \in Descs |-> "consumer"]

\* a call of the given kind on the given line returns r to caller t
Return(t, kind, line, r, reg, oobAccess) ==
    /\ pc' = [pc EXCEPT ![t] = "idle"]
    /\ op' = [op EXCEPT ![t] = NoOp]
    /\ last' = Last(kind, line, r, FALSE, reg, oobAccess, op[t].fresh)

\* the same for a call that has called the provider's hook
ReturnHooked(t, kind, line, r, reg) ==
    /\ pc' = [pc EXCEPT ![t] = "idle"]
    /\ op' = [op EXCEPT ![t] = NoOp]
    /\ last' = [Last(kind, line, r, FALSE, reg, FALSE, op[t].fresh)
                  EXCEPT !.hook = TRUE]

\* caller t moves on inside its call: nothing returns in this step
Goto(t, label) ==
    /\ pc' = [pc EXCEPT ![t] = label]
    /\ last' = NoLast
    /\ UNCHANGED op

\* ------------------------------------------------------------- request
\* hte_simple_xlate with args == NULL: the bound check on desc->con_id
XlateRejects(id) == id > NLines

ReqAlreadyRegistered_Off(c) == FALSE
\* ___hte_req_ts: test_bit(HTE_TS_REGISTERED, &ei->flags) under req_mlock
ReqAlreadyRegistered(c) == registered[c]

\* ___hte_req_ts: "if (ret < 0)" after chip->ops->request
ReqHookFailed(r) == r < 0

\* ___hte_req_ts: atomic_inc(&gdev->ts_req) after a successful provider
\* request
TsReqAfterRequest(n) == n + 1

TsReqAfterRelease_Keep(n) == n
\* hte_release_ts: atomic_dec(&gdev->ts_req) under slock, with the clearing
\* of HTE_TS_REGISTERED
TsReqAfterRelease(n) == n - 1

\* hte_req_ts_by_hte_name up to mutex_lock in ___hte_req_ts: xlate of the
\* con_id the consumer stored in the descriptor, then try_module_get.  The
\* call starts here when the device is on the list and the lookup is not
\* followed step by step, and at "req_found" when it is
ReqCall(t, d, id, wantTcb) ==
    /\ pc[t] \in {"idle", "req_found"}
    /\ pc[t] = "req_found" => ~gdevFreed
    /\ IF XlateRejects(id)
       THEN /\ Return(t, "req", id, 0 - EINVAL, FALSE, FALSE)
            /\ UNCHANGED <<modRef, desc>>
       ELSE /\ desc' = [desc EXCEPT ![d] = NoLine]
            /\ IF ~modLive
               THEN /\ Return(t, "req", id, 0 - ENODEV, FALSE, FALSE)
                    /\ UNCHANGED modRef
               ELSE /\ modRef' = modRef + 1
                    /\ pc' = [pc EXCEPT ![t] = IF id = NLines THEN "req_oob"
                                                ELSE "req_lock"]
                    /\ op' = [op EXCEPT ![t] = [kind |-> "req", d |-> d,
                                                line |-> id, en |-> FALSE,
                                                tcb |-> wantTcb, seqno |-> 0,
                                                cbv |-> NULL, ctx |-> NULL,
                                                slk |-> FALSE,
                                                fresh |-> IF id \in Lines
                                                          THEN ~registered[id]
                                                          ELSE FALSE]]
                    /\ last' = NoLast
    /\ UNCHANGED <<chanVars, mutex, ts_req, modLive, gdevFreed, chip, hte_devices, hte_lock, ghostVars, labelVars, tegraVars>>

ReqInUse_NoPut(t) ==
    LET c == op[t].line IN
    /\ pc[t] = "req_lock"
    /\ mutex[c] = 0
    /\ ReqAlreadyRegistered(c)
    /\ Return(t, "req", c, 0 - EUSERS, TRUE, FALSE)
    /\ UNCHANGED <<chanVars, mutex, devVars, desc, ghostVars, labelVars, tegraVars>>

\* ___hte_req_ts, line already registered: -EUSERS
ReqInUse(t) ==
    LET c == op[t].line IN
    /\ pc[t] = "req_lock"
    /\ mutex[c] = 0
    /\ ReqAlreadyRegistered(c)
    /\ modRef' = modRef - 1
    /\ Return(t, "req", c, 0 - EUSERS, TRUE, FALSE)
    /\ UNCHANGED <<chanVars, mutex, ts_req, modLive, gdevFreed, chip, hte_devices, hte_lock, desc, ghostVars, labelVars, tegraVars>>

\* ___hte_req_ts, kthread_create fails in _hte_setup_thread
ReqThreadFail(t) ==
    LET c == op[t].line IN
    /\ pc[t] = "req_lock"
    /\ mutex[c] = 0
    /\ ~ReqAlreadyRegistered(c)
    /\ op[t].tcb
    /\ cb' = [cb EXCEPT ![c] = t]
    /\ tcb' = [tcb EXCEPT ![c] = t]
    /\ modRef' = modRef - 1
    /\ Return(t, "req", c, 0 - ENOMEM, FALSE, FALSE)
    /\ UNCHANGED <<registered, disabled, seq, dropped, cl_data, thread,
                   shouldStop, runFlag, mutex, ts_req, modLive, gdevFreed, chip, hte_devices, hte_lock, desc,
                   ghostVars, labelVars, tegraVars>>

\* ei->thread after the optional _hte_setup_thread
ThreadAfterSetup(c, wantTcb) == IF wantTcb THEN "created" ELSE thread[c]

\* ei->seq and ei->dropped_ts after a successful ___hte_req_ts: the function
\* does not write them
SeqAfterRequest(s) == s

\* HTE_TS_DISABLE after a successful ___hte_req_ts: the function does not
\* write it
DisabledAfterRequest(b) == b

\* ___hte_req_ts, callbacks stored and thread created, then chip->ops->request
\* ___hte_req_ts: desc->name after the label code; the kzalloc of the label
\* is taken to succeed
NameAfterRequest(n) == IF n = "null" THEN "core" ELSE n

\* ___hte_req_ts: ei->hte_name after the label code
HteNameAfterRequest(n) == n = "null"

\* returns r
ReqHook(t, r) ==
    LET c == op[t].line
        d == op[t].d
    IN
    /\ pc[t] = "req_lock"
    /\ mutex[c] = 0
    /\ ~ReqAlreadyRegistered(c)
    /\ cb' = [cb EXCEPT ![c] = t]
    /\ tcb' = [tcb EXCEPT ![c] = IF op[t].tcb THEN t ELSE NULL]
    /\ thread' = [thread EXCEPT ![c] = ThreadAfterSetup(c, op[t].tcb)]
    /\ shouldStop' = [shouldStop EXCEPT ![c] = IF op[t].tcb THEN FALSE ELSE @]
    /\ IF ReqHookFailed(r)
       THEN /\ modRef' = modRef - 1
            /\ ReturnHooked(t, "req", c, r, FALSE)
            /\ UNCHANGED <<registered, disabled, seq, dropped, cl_data, ts_req,
                           desc, delivered, grants, values, cbDropped,
                           labelVars>>
       ELSE /\ desc' = [desc EXCEPT ![d] = c]
            /\ desc_name' = [desc_name EXCEPT ![d] = NameAfterRequest(@)]
            /\ hte_name' = [hte_name EXCEPT
                              ![c] = HteNameAfterRequest(desc_name[d])]
            /\ cl_data' = [cl_data EXCEPT ![c] = t]
            /\ ts_req' = TsReqAfterRequest(ts_req)
            /\ registered' = [registered EXCEPT ![c] = TRUE]
            /\ seq' = [seq EXCEPT ![c] = SeqAfterRequest(@)]
            /\ dropped' = [dropped EXCEPT ![c] = SeqAfterRequest(@)]
            /\ disabled' = [disabled EXCEPT ![c] = DisabledAfterRequest(@)]
            /\ delivered' = [delivered EXCEPT ![c] = <<>>]
            /\ values' = [values EXCEPT ![c] = <<>>]
            /\ cbDropped' = [cbDropped EXCEPT ![c] = 0]
            /\ grants' = [grants EXCEPT ![c] = @ + 1]
            /\ ReturnHooked(t, "req", c, 0, FALSE)
            /\ UNCHANGED modRef
    /\ UNCHANGED <<runFlag, mutex, modLive, gdevFreed, chip, hte_devices,
                   hte_lock, suppressed, oobPins, tegraVars>>

\* ___hte_req_ts with xlated_id == nlines: ei points past the table; what
\* is read there decides whether the request "succeeds"
ReqOutOfBounds(t, r) ==
    /\ pc[t] = "req_oob"
    /\ IF r = 0
       THEN /\ oobPins < MaxOob
            /\ oobPins' = oobPins + 1
            /\ ts_req' = TsReqAfterRequest(ts_req)
            /\ desc' = [desc EXCEPT ![op[t].d] = NLines]
            /\ desc_name' = [desc_name EXCEPT
                               ![op[t].d] = NameAfterRequest(@)]
            /\ UNCHANGED modRef
       ELSE /\ modRef' = modRef - 1
            /\ UNCHANGED <<oobPins, desc_name, ts_req, desc>>
    /\ UNCHANGED <<hte_name, tegraVars>>
    /\ Return(t, "req", op[t].line, r, r # 0, TRUE)
    /\ UNCHANGED <<chanVars, mutex, modLive, gdevFreed, chip, hte_devices, hte_lock, delivered, grants, suppressed,
                   values, cbDropped>>

\* ---------------------------------------------------------------- push
\* hte_push_ts_ns: the bound check on xlated_id
PushRejects(id) == id > NLines

SeqAfterPush_Skip(s) == s + 2
SeqAfterPush_Stuck(s) == s
\* hte_push_ts_ns: data->seq = ei->seq++
SeqAfterPush(s) == s + 1

PushUnknown_RegOnly(c) == ~registered[c]
PushUnknown_Always(c) == TRUE
PushUnknown_Never(c) == FALSE
PushUnknown_DisOnly(c) == disabled[c]
\* hte_push_ts_ns: the line is not registered or is disabled
PushUnknown(c) == ~registered[c] \/ disabled[c]

\* hte_push_ts_ns: value returned for an unknown timestamp push
PushUnknownSt == 0 - EINVAL

DroppedAfterCb_Handled(n, r) ==
    IF r \in {"HTE_CB_TS_DROPPED", "HTE_CB_HANDLED"} THEN n + 1 ELSE n
DroppedAfterCb_Error(n, r) ==
    IF r \in {"HTE_CB_TS_DROPPED", "HTE_CB_ERROR"} THEN n + 1 ELSE n
\* hte_push_ts_ns: ei->dropped_ts after ei->cb returned r and the worker was
\* not woken
DroppedAfterCb(n, r) == IF r = "HTE_CB_TS_DROPPED" THEN n + 1 ELSE n

\* hte_push_ts_ns with an id the bound check rejects
PushInvalid(id) ==
    /\ PushRejects(id)
    /\ last' = Last("push", id, 0 - EINVAL, FALSE, FALSE, FALSE, FALSE)
    /\ UNCHANGED <<chanVars, mutex, devVars, desc, callVars, ghostVars, labelVars, tegraVars>>

\* hte_push_ts_ns with xlated_id == nlines: the bound check lets it through
\* and ei points past the table; what it reads there decides the result
PushOutOfBounds(id, st) ==
    /\ ~PushRejects(id)
    /\ id \notin Lines
    /\ last' = Last("push", id, st, FALSE, FALSE, TRUE, FALSE)
    /\ UNCHANGED <<chanVars, mutex, devVars, desc, callVars, ghostVars, labelVars, tegraVars>>

\* hte_push_ts_ns on a line of the table with data->tsc = tsc; r is what
\* ei->cb returns if it is called; no more than maxSeq pushes are made on a
\* line between two resets.  The whole body runs under ei->slock.
PushTs(id, tsc, r, maxSeq) ==
    /\ ~PushRejects(id)
    /\ id \in Lines
    /\ seq[id] < maxSeq
    /\ seq' = [seq EXCEPT ![id] = SeqAfterPush(@)]
    /\ IF PushUnknown(id)
       THEN /\ last' = Last("push", id, PushUnknownSt, FALSE, registered[id],
                             FALSE, FALSE)
            /\ UNCHANGED <<dropped, runFlag, thread, delivered, values,
                           cbDropped>>
       ELSE /\ last' = Last("push", id, 0, TRUE, TRUE, FALSE, FALSE)
            /\ delivered' = [delivered EXCEPT ![id] = Append(@, seq[id])]
            /\ values' = [values EXCEPT ![id] = Append(@, tsc)]
            /\ cbDropped' = [cbDropped EXCEPT ![id] =
                                IF r = "HTE_CB_TS_DROPPED" THEN @ + 1 ELSE @]
            /\ IF r = "HTE_RUN_THREADED_CB" /\ thread[id] # "null"
               THEN /\ runFlag' = [runFlag EXCEPT ![id] = TRUE]
                    /\ thread' = [thread EXCEPT ![id] =
                                    IF ~runFlag[id] /\ @ = "created"
                                    THEN "wait" ELSE @]
                    /\ UNCHANGED dropped
               ELSE /\ dropped' = [dropped EXCEPT ![id] = DroppedAfterCb(@, r)]
                    /\ UNCHANGED <<runFlag, thread>>
    /\ UNCHANGED <<registered, disabled, cb, tcb, cl_data, shouldStop, mutex,
                   devVars, desc, callVars, grants, suppressed, oobPins, labelVars, tegraVars>>

\* hte_push_ts_ns on a line of the table, the timestamp value left out
Push(id, r) == PushTs(id, 0, r, MaxSeq)

\* ------------------------------------------- push, one step per statement
SlockHeld_Never(c) == FALSE
\* ei->slock is held by a caller from spin_lock_irqsave to
\* spin_unlock_irqrestore; op[t].slk says that caller t holds the lock of
\* the line it works on
SlockHeld(c) ==
    \E t \in Threads : op[t].slk /\ op[t].line = c

\* hte_push_ts_ns up to spin_lock_irqsave: the bound check passed
PushCall(t, id) ==
    /\ pc[t] = "idle"
    /\ ~PushRejects(id)
    /\ id \in Lines
    /\ pc' = [pc EXCEPT ![t] = "push_spin"]
    /\ op' = [op EXCEPT ![t] = [NoOp EXCEPT !.kind = "push", !.line = id]]
    /\ last' = NoLast
    /\ UNCHANGED <<chanVars, mutex, devVars, desc, ghostVars, labelVars, tegraVars>>

\* hte_push_ts_ns: spin_lock_irqsave returns; data->seq = ei->seq++
PushLock(t) ==
    LET c == op[t].line IN
    /\ pc[t] = "push_spin"
    /\ ~SlockHeld(c)
    /\ seq[c] < MaxSeq
    /\ seq' = [seq EXCEPT ![c] = SeqAfterPush(@)]
    /\ pc' = [pc EXCEPT ![t] = "push_seq"]
    /\ op' = [op EXCEPT ![t].seqno = seq[c], ![t].slk = TRUE]
    /\ last' = NoLast
    /\ UNCHANGED <<registered, disabled, dropped, cb, tcb, cl_data, thread,
                   shouldStop, runFlag, mutex, devVars, desc, ghostVars, labelVars, tegraVars>>

\* hte_push_ts_ns: the test of the flags; an unknown push unlocks and
\* returns, otherwise ei->cb is entered with data->seq
PushTest(t) ==
    LET c == op[t].line IN
    /\ pc[t] = "push_seq"
    /\ IF PushUnknown(c)
       THEN /\ pc' = [pc EXCEPT ![t] = "idle"]
            /\ op' = [op EXCEPT ![t] = NoOp]
            /\ last' = Last("push", c, PushUnknownSt, FALSE, registered[c],
                             FALSE, FALSE)
            /\ UNCHANGED <<delivered, values>>
       ELSE /\ pc' = [pc EXCEPT ![t] = "push_cb"]
            /\ delivered' = [delivered EXCEPT ![c] = Append(@, op[t].seqno)]
            /\ values' = [values EXCEPT ![c] = Append(@, 0)]
            /\ last' = NoLast
            /\ op' = [op EXCEPT ![t].cbv = cb[c], ![t].ctx = cl_data[c]]
    /\ UNCHANGED <<chanVars, mutex, devVars, desc, grants, suppressed,
                   cbDropped, oobPins, labelVars, tegraVars>>

\* hte_push_ts_ns: ei->cb returns r; the worker is woken or the drop is
\* counted; spin_unlock_irqrestore; return
PushCbReturn(t, r) ==
    LET c == op[t].line IN
    /\ pc[t] = "push_cb"
    /\ cbDropped' = [cbDropped EXCEPT ![c] =
                        IF r = "HTE_CB_TS_DROPPED" THEN @ + 1 ELSE @]
    /\ IF r = "HTE_RUN_THREADED_CB" /\ thread[c] # "null"
       THEN /\ runFlag' = [runFlag EXCEPT ![c] = TRUE]
            /\ thread' = [thread EXCEPT ![c] =
                            IF ~runFlag[c] /\ @ = "created"
                            THEN "wait" ELSE @]
            /\ UNCHANGED dropped
       ELSE /\ dropped' = [dropped EXCEPT ![c] = DroppedAfterCb(@, r)]
            /\ UNCHANGED <<runFlag, thread>>
    /\ pc' = [pc EXCEPT ![t] = "idle"]
    /\ op' = [op EXCEPT ![t] = NoOp]
    /\ last' = [Last("push", c, 0, TRUE, TRUE, FALSE, FALSE) EXCEPT !.cbret = r]
    /\ UNCHANGED <<registered, disabled, seq, cb, tcb, cl_data, shouldStop,
                   mutex, devVars, desc, delivered, grants, suppressed, values,
                   oobPins, labelVars, tegraVars>>


\* -------------------------------------------------------------- worker
WorkerWait_NoStop(c) ==
    /\ thread[c] = "wait"
    /\ runFlag[c]
    /\ runFlag' = [runFlag EXCEPT ![c] = FALSE]
    /\ thread' = [thread EXCEPT ![c] = IF tcb[c] = NULL THEN "oops" ELSE "tcb"]
    /\ last' = NoLast
    /\ UNCHANGED <<registered, disabled, seq, dropped, cb, tcb, cl_data,
                   shouldStop, mutex, devVars, desc, callVars, ghostVars, labelVars, tegraVars>>

WorkerWait_StopFirst(c) ==
    /\ thread[c] = "wait"
    /\ shouldStop[c] \/ runFlag[c]
    /\ IF shouldStop[c]
       THEN /\ thread' = [thread EXCEPT ![c] = "exited"]
            /\ UNCHANGED runFlag
       ELSE /\ runFlag' = [runFlag EXCEPT ![c] = FALSE]
            /\ thread' = [thread EXCEPT ![c] = IF tcb[c] = NULL THEN "oops"
                                               ELSE "tcb"]
    /\ last' = NoLast
    /\ UNCHANGED <<registered, disabled, seq, dropped, cb, tcb, cl_data,
                   shouldStop, mutex, devVars, desc, callVars, ghostVars, labelVars, tegraVars>>

\* _hte_wait_for_ts_data: one pass of the loop that does not sleep; when it
\* returns 0 _hte_threadfn calls ei->tcb, which kills the task if it is NULL
WorkerWait(c) ==
    /\ thread[c] = "wait"
    /\ shouldStop[c] \/ runFlag[c]
    /\ IF runFlag[c]
       THEN /\ runFlag' = [runFlag EXCEPT ![c] = FALSE]
            /\ thread' = [thread EXCEPT ![c] = IF tcb[c] = NULL THEN "oops"
                                               ELSE "tcb"]
       ELSE /\ thread' = [thread EXCEPT ![c] = "exited"]
            /\ UNCHANGED runFlag
    /\ last' = NoLast
    /\ UNCHANGED <<registered, disabled, seq, dropped, cb, tcb, cl_data,
                   shouldStop, mutex, devVars, desc, callVars, ghostVars, labelVars, tegraVars>>

\* _hte_threadfn: ei->tcb(ei->cl_data) returns
WorkerTcb(c) ==
    /\ thread[c] = "tcb"
    /\ thread' = [thread EXCEPT ![c] = "wait"]
    /\ last' = NoLast
    /\ UNCHANGED <<registered, disabled, seq, dropped, cb, tcb, cl_data,
                   shouldStop, runFlag, mutex, devVars, desc, callVars,
                   ghostVars, labelVars, tegraVars>>

\* ------------------------------------------------------------- release
\* hte_release_ts: "if (ret)" after chip->ops->release
RelHookFailed(r) == r # 0

\* hte_release_ts: ei->seq and ei->dropped_ts after the reset under slock
SeqAfterRelease == 0

RelRegistered_Any(c) == TRUE
\* hte_release_ts: test_bit(HTE_TS_REGISTERED, &ei->flags) under req_mlock
RelRegistered(c) == registered[c]

\* hte_release_ts up to mutex_lock: ei = desc->hte_data
RelCall(t, d) ==
    /\ pc[t] = "idle"
    /\ IF desc[d] = NoLine
       THEN Return(t, "rel", NoLine, 0 - EINVAL, FALSE, FALSE)
       ELSE /\ pc' = [pc EXCEPT ![t] = IF desc[d] = NLines
                                        THEN "rel_oob" ELSE "rel_lock"]
            /\ op' = [op EXCEPT ![t] = [NoOp EXCEPT !.kind = "rel", !.d = d,
                                                    !.line = desc[d]]]
            /\ last' = NoLast
    /\ UNCHANGED <<chanVars, mutex, devVars, desc, ghostVars, labelVars, tegraVars>>

\* hte_release_ts: the line is not registered: -EUSERS
RelNotRegistered(t) ==
    LET c == op[t].line IN
    /\ pc[t] = "rel_lock"
    /\ mutex[c] = 0
    /\ ~RelRegistered(c)
    /\ Return(t, "rel", c, 0 - EUSERS, registered[c], FALSE)
    /\ UNCHANGED <<chanVars, mutex, devVars, desc, ghostVars, labelVars, tegraVars>>

\* hte_release_ts: desc->name after "if (ei->hte_name) kfree(desc->name)";
\* the pointer is left as it was
NameAfterRelease(n, owned) == IF owned THEN "freed" ELSE n

\* hte_release_ts: chip->ops->release returns r; on success the state is
\* reset under slock and req_mlock stays held
RelHook(t, r) ==
    LET c == op[t].line IN
    /\ pc[t] = "rel_lock"
    /\ mutex[c] = 0
    /\ RelRegistered(c)
    /\ IF RelHookFailed(r)
       THEN /\ ReturnHooked(t, "rel", c, r, registered[c])
            /\ UNCHANGED <<registered, seq, dropped, mutex, ts_req, desc, grants,
                           delivered, values, cbDropped, desc_name>>
       ELSE /\ ~SlockHeld(c)
            /\ desc_name' = [desc_name EXCEPT
                               ![op[t].d] = NameAfterRelease(@, hte_name[c])]
            /\ ts_req' = TsReqAfterRelease(ts_req)
            /\ dropped' = [dropped EXCEPT ![c] = SeqAfterRelease]
            /\ seq' = [seq EXCEPT ![c] = SeqAfterRelease]
            /\ desc' = [desc EXCEPT ![op[t].d] = NoLine]
            /\ registered' = [registered EXCEPT ![c] = FALSE]
            /\ grants' = [grants EXCEPT ![c] = 0]
            /\ delivered' = [delivered EXCEPT ![c] = <<>>]
            /\ values' = [values EXCEPT ![c] = <<>>]
            /\ cbDropped' = [cbDropped EXCEPT ![c] = 0]
            /\ mutex' = [mutex EXCEPT ![c] = t]
            /\ pc' = [pc EXCEPT ![t] = "rel_stop"]
            /\ op' = [u \in Threads |->
                        IF op[u].kind = "req" /\ op[u].line = c
                        THEN [op[u] EXCEPT !.fresh = FALSE] ELSE op[u]]
            /\ last' = NoLast
    /\ UNCHANGED <<disabled, cb, tcb, cl_data, thread, shouldStop, runFlag,
                   modRef, modLive, gdevFreed, chip, hte_devices, hte_lock,
                   suppressed, oobPins, hte_name, tegraVars>>

\* hte_release_ts with the module_put moved before kthread_stop
RelStop_PutEarly(t) ==
    LET c == op[t].line IN
    /\ pc[t] = "rel_stop"
    /\ Goto(t, "rel_join")
    /\ modRef' = modRef - 1
    /\ IF tcb[c] # NULL
       THEN /\ shouldStop' = [shouldStop EXCEPT ![c] = TRUE]
            /\ thread' = [thread EXCEPT ![c] = IF @ = "created"
                                               THEN "exited" ELSE @]
       ELSE UNCHANGED <<shouldStop, thread>>
    /\ UNCHANGED <<registered, disabled, seq, dropped, cb, tcb, cl_data, runFlag,
                   mutex, ts_req, modLive, gdevFreed, chip, hte_devices, hte_lock, desc,
                   ghostVars, labelVars, tegraVars>>

\* hte_release_ts: kthread_stop(ei->thread) is called when ei->tcb is set; a
\* task that was never woken exits without entering _hte_threadfn
RelStop(t) ==
    LET c == op[t].line IN
    /\ pc[t] = "rel_stop"
    /\ Goto(t, "rel_join")
    /\ IF tcb[c] # NULL
       THEN /\ shouldStop' = [shouldStop EXCEPT ![c] = TRUE]
            /\ thread' = [thread EXCEPT ![c] = IF @ = "created"
                                               THEN "exited" ELSE @]
       ELSE UNCHANGED <<shouldStop, thread>>
    /\ UNCHANGED <<registered, disabled, seq, dropped, cb, tcb, cl_data, runFlag,
                   mutex, devVars, desc, ghostVars, labelVars, tegraVars>>

\* hte_release_ts: kthread_stop returns only when the task has exited
StopReturned(c) == tcb[c] # NULL => thread[c] = "exited"

\* hte_release_ts: kthread_stop has returned; ei->cb, ei->tcb, ei->thread
\* and ei->cl_data are cleared.  A task that ei->thread still points to
\* when ei->tcb is NULL is not stopped; it is not followed further
RelClear(t) ==
    LET c == op[t].line IN
    /\ pc[t] = "rel_join"
    /\ StopReturned(c)
    /\ cb' = [cb EXCEPT ![c] = NULL]
    /\ tcb' = [tcb EXCEPT ![c] = NULL]
    /\ thread' = [thread EXCEPT ![c] = "null"]
    /\ cl_data' = [cl_data EXCEPT ![c] = NULL]
    /\ Goto(t, "rel_put")
    /\ UNCHANGED <<registered, disabled, seq, dropped, shouldStop, runFlag,
                   mutex, devVars, desc, ghostVars, labelVars, tegraVars>>

\* hte_release_ts: module_put(gdev->owner), req_mlock is released, return
RelFinish(t) ==
    LET c == op[t].line IN
    /\ pc[t] = "rel_put"
    /\ modRef' = modRef - 1
    /\ mutex' = [mutex EXCEPT ![c] = 0]
    /\ ReturnHooked(t, "rel", c, 0, TRUE)
    /\ UNCHANGED <<chanVars, ts_req, modLive, gdevFreed, chip, hte_devices, hte_lock,
                   desc, ghostVars, labelVars, tegraVars>>

\* ----------------------------------------------------- enable / disable
EnDisNoop_EnableOnly(c, en) == en /\ ~disabled[c]
\* hte_ts_dis_en_common: the line is already in the state asked for
EnDisNoop(c, en) == IF en THEN ~disabled[c] ELSE disabled[c]

EnDisHookFailed_Negative(r) == r < 0
\* hte_ts_dis_en_common: "if (ret)" after chip->ops->enable / disable
EnDisHookFailed(r) == r # 0

\* hte_ts_dis_en_common: HTE_TS_DISABLE after a successful enable / disable
DisabledAfter(en) == ~en

\* the call kind recorded for hte_enable_ts / hte_disable_ts
EnDisKind(en) == IF en THEN "enable" ELSE "disable"

\* hte_ts_dis_en_common up to mutex_lock: ei = desc->hte_data
EnDisCall(t, d, en) ==
    /\ pc[t] = "idle"
    /\ IF desc[d] = NoLine
       THEN Return(t, EnDisKind(en), NoLine, 0 - EINVAL, FALSE, FALSE)
       ELSE /\ pc' = [pc EXCEPT ![t] = IF desc[d] = NLines
                                        THEN "ed_oob" ELSE "ed_lock"]
            /\ op' = [op EXCEPT ![t] = [NoOp EXCEPT !.kind = EnDisKind(en),
                                                    !.d = d, !.en = en,
                                                    !.line = desc[d]]]
            /\ last' = NoLast
    /\ UNCHANGED <<chanVars, mutex, devVars, desc, ghostVars, labelVars, tegraVars>>

\* hte_ts_dis_en_common: registered check, then the flag test under slock
EnDisLock(t) ==
    LET c == op[t].line IN
    /\ pc[t] = "ed_lock"
    /\ mutex[c] = 0
    /\ registered[c] => ~SlockHeld(c)
    /\ IF ~registered[c]
       THEN /\ Return(t, op[t].kind, c, 0 - EUSERS, FALSE, FALSE)
            /\ UNCHANGED mutex
       ELSE IF EnDisNoop(c, op[t].en)
       THEN /\ Return(t, op[t].kind, c, 0, TRUE, FALSE)
            /\ UNCHANGED mutex
       ELSE /\ mutex' = [mutex EXCEPT ![c] = t]
            /\ Goto(t, "ed_hook")
    /\ UNCHANGED <<chanVars, devVars, desc, ghostVars, labelVars, tegraVars>>

\* hte_ts_dis_en_common: mutex_lock(&ei->req_mlock) returns; an unregistered
\* line gives -EUSERS
EnDisMutex(t) ==
    LET c == op[t].line IN
    /\ pc[t] = "ed_lock"
    /\ mutex[c] = 0
    /\ IF ~registered[c]
       THEN /\ Return(t, op[t].kind, c, 0 - EUSERS, FALSE, FALSE)
            /\ UNCHANGED mutex
       ELSE /\ mutex' = [mutex EXCEPT ![c] = t]
            /\ Goto(t, "ed_spin")
    /\ UNCHANGED <<chanVars, devVars, desc, ghostVars, labelVars, tegraVars>>

\* hte_ts_dis_en_common: spin_lock_irqsave(&ei->slock) returns
EnDisSpin(t) ==
    LET c == op[t].line IN
    /\ pc[t] = "ed_spin"
    /\ ~SlockHeld(c)
    /\ pc' = [pc EXCEPT ![t] = "ed_test"]
    /\ op' = [op EXCEPT ![t].slk = TRUE]
    /\ last' = NoLast
    /\ UNCHANGED <<chanVars, mutex, devVars, desc, ghostVars, labelVars, tegraVars>>

\* hte_ts_dis_en_common that keeps ei->slock across the provider's hook
EnDisTest_KeepLock(t) ==
    LET c == op[t].line IN
    /\ pc[t] = "ed_test"
    /\ IF EnDisNoop(c, op[t].en)
       THEN /\ mutex' = [mutex EXCEPT ![c] = 0]
            /\ Return(t, op[t].kind, c, 0, TRUE, FALSE)
       ELSE /\ Goto(t, "ed_hook")
            /\ UNCHANGED mutex
    /\ UNCHANGED <<chanVars, devVars, desc, ghostVars, labelVars, tegraVars>>

\* hte_ts_dis_en_common: the test of HTE_TS_DISABLE under slock; a line
\* already in the state asked for unlocks both locks and returns 0, otherwise
\* slock is dropped before the provider's hook is called
EnDisTest(t) ==
    LET c == op[t].line IN
    /\ pc[t] = "ed_test"
    /\ IF EnDisNoop(c, op[t].en)
       THEN /\ mutex' = [mutex EXCEPT ![c] = 0]
            /\ Return(t, op[t].kind, c, 0, TRUE, FALSE)
       ELSE /\ pc' = [pc EXCEPT ![t] = "ed_hook"]
            /\ op' = [op EXCEPT ![t].slk = FALSE]
            /\ last' = NoLast
            /\ UNCHANGED mutex
    /\ UNCHANGED <<chanVars, devVars, desc, ghostVars, labelVars, tegraVars>>

\* hte_ts_dis_en_common: the hook it is about to call is not NULL
EnDisHookSet(en) == IF en THEN chip.enable ELSE chip.disable

\* hte_ts_dis_en_common: gdev->chip->ops->enable / disable is called without
\* a test and is NULL: the caller dies with req_mlock held
EnDisNullHook(t) ==
    /\ pc[t] = "ed_hook"
    /\ ~EnDisHookSet(op[t].en)
    /\ Goto(t, "crashed")
    /\ UNCHANGED <<chanVars, mutex, devVars, desc, ghostVars, labelVars, tegraVars>>

\* hte_ts_dis_en_common that also restarts the sequence counter when the
\* flag is flipped
EnDisHook_ResetsSeq(t, r) ==
    LET c == op[t].line IN
    /\ pc[t] = "ed_hook"
    /\ EnDisHookSet(op[t].en)
    /\ ~EnDisHookFailed(r) => ~SlockHeld(c)
    /\ mutex' = [mutex EXCEPT ![c] = 0]
    /\ ReturnHooked(t, op[t].kind, c, r, TRUE)
    /\ IF EnDisHookFailed(r)
       THEN UNCHANGED <<disabled, suppressed, seq>>
       ELSE /\ disabled' = [disabled EXCEPT ![c] = DisabledAfter(op[t].en)]
            /\ suppressed' = [suppressed EXCEPT ![c] = ~op[t].en]
            /\ seq' = [seq EXCEPT ![c] = 0]
    /\ UNCHANGED <<registered, dropped, cb, tcb, cl_data, thread,
                   shouldStop, runFlag, devVars, desc, delivered, grants,
                   values, cbDropped, oobPins, labelVars, tegraVars>>

\* hte_ts_dis_en_common: chip->ops->enable / disable returns r (slock not
\* held); on success the flag is flipped under slock; both locks released
EnDisHook(t, r) ==
    LET c == op[t].line IN
    /\ pc[t] = "ed_hook"
    /\ EnDisHookSet(op[t].en)
    /\ ~EnDisHookFailed(r) => ~SlockHeld(c)
    /\ mutex' = [mutex EXCEPT ![c] = 0]
    /\ ReturnHooked(t, op[t].kind, c, r, TRUE)
    /\ IF EnDisHookFailed(r)
       THEN UNCHANGED <<disabled, suppressed>>
       ELSE /\ disabled' = [disabled EXCEPT ![c] = DisabledAfter(op[t].en)]
            /\ suppressed' = [suppressed EXCEPT ![c] = ~op[t].en]
    /\ UNCHANGED <<registered, seq, dropped, cb, tcb, cl_data, thread,
                   shouldStop, runFlag, devVars, desc, delivered, grants,
                   values, cbDropped, oobPins, labelVars, tegraVars>>

\* hte_release_ts / hte_ts_dis_en_common through a descriptor whose hte_data
\* points past the table: what is read there decides the result; the
\* hte_name read there is the one the request stored
DescOutOfBounds(t, r) ==
    /\ pc[t] \in {"rel_oob", "ed_oob"}
    /\ IF r = 0 /\ pc[t] = "rel_oob"
       THEN /\ oobPins > 0
            /\ oobPins' = oobPins - 1
            /\ ts_req' = TsReqAfterRelease(ts_req)
            /\ modRef' = modRef - 1
            /\ desc' = [desc EXCEPT ![op[t].d] = NoLine]
            /\ desc_name' = [desc_name EXCEPT
                               ![op[t].d] = NameAfterRelease(@, @ = "core")]
       ELSE UNCHANGED <<oobPins, desc_name, ts_req, modRef, desc>>
    /\ UNCHANGED <<hte_name, tegraVars>>
    /\ Return(t, op[t].kind, op[t].line, r, r = 0, TRUE)
    /\ UNCHANGED <<chanVars, mutex, modLive, gdevFreed, chip, hte_devices, hte_lock, delivered, grants, suppressed,
                   values, cbDropped>>

\* the provider module starts to unload: possible only while nothing pins it
ModuleGoing ==
    /\ modLive
    /\ modRef = 0
    /\ modLive' = FALSE
    /\ last' = NoLast
    /\ UNCHANGED <<chanVars, mutex, ts_req, modRef, gdevFreed, chip, hte_devices, hte_lock, desc, callVars,
                   ghostVars, labelVars, tegraVars>>

RegisterOpsMissing_RequestOnly(ch) == ~ch.request
\* hte_register_chip: "!chip->ops || !chip->ops->request ||
\* !chip->ops->release"
RegisterOpsMissing(ch) == ~ch.request \/ ~ch.release

\* hte_register_chip: chip->xlate after "if (!chip->xlate)"
XlateAfterRegister(x) == IF x = "NULL" THEN "hte_simple_xlate" ELSE x

\* hte_register_chip; devOk: chip, chip->dev and its of_node are set;
\* allocOk: kzalloc succeeds
RegisterChip(devOk, allocOk) ==
    /\ ~chip.gdev
    /\ IF ~devOk \/ RegisterOpsMissing(chip)
       THEN /\ last' = Last("register", NoLine, 0 - EINVAL, FALSE, FALSE, FALSE,
                             FALSE)
            /\ UNCHANGED <<chip, hte_devices>>
       ELSE IF ~allocOk
       THEN /\ last' = Last("register", NoLine, 0 - ENOMEM, FALSE, FALSE, FALSE,
                             FALSE)
            /\ UNCHANGED <<chip, hte_devices>>
       ELSE /\ chip' = [chip EXCEPT !.gdev = TRUE,
                                    !.xlate = XlateAfterRegister(@)]
            /\ hte_devices' = hte_devices + 1
            /\ last' = Last("register", NoLine, 0, FALSE, FALSE, FALSE, FALSE)
    /\ UNCHANGED <<chanVars, mutex, ts_req, modRef, modLive, gdevFreed,
                   hte_lock, desc, callVars, ghostVars, labelVars, tegraVars>>

\* hte_register_chip up to spin_lock(&hte_lock), by caller t: the checks,
\* kzalloc, gdev and chip linked, the default xlate installed
RegisterCheck(t, devOk, allocOk) ==
    /\ pc[t] = "idle"
    /\ ~chip.gdev
    /\ IF ~devOk \/ RegisterOpsMissing(chip)
       THEN /\ Return(t, "register", NoLine, 0 - EINVAL, FALSE, FALSE)
            /\ UNCHANGED chip
       ELSE IF ~allocOk
       THEN /\ Return(t, "register", NoLine, 0 - ENOMEM, FALSE, FALSE)
            /\ UNCHANGED chip
       ELSE /\ chip' = [chip EXCEPT !.gdev = TRUE,
                                    !.xlate = XlateAfterRegister(@)]
            /\ pc' = [pc EXCEPT ![t] = "reg_spin"]
            /\ op' = [op EXCEPT ![t] = [NoOp EXCEPT !.kind = "register"]]
            /\ last' = NoLast
    /\ UNCHANGED <<chanVars, mutex, ts_req, modRef, modLive, gdevFreed,
                   hte_devices, hte_lock, desc, ghostVars, labelVars, tegraVars>>

\* hte_register_chip: spin_lock(&hte_lock) returns
RegisterLock(t) ==
    /\ pc[t] = "reg_spin"
    /\ hte_lock = 0
    /\ hte_lock' = t
    /\ Goto(t, "reg_add")
    /\ UNCHANGED <<chanVars, mutex, ts_req, modRef, modLive, gdevFreed, chip,
                   hte_devices, desc, ghostVars, labelVars, tegraVars>>

\* hte_register_chip: list_add_tail, spin_unlock(&hte_lock), return 0
RegisterAdd(t) ==
    /\ pc[t] = "reg_add"
    /\ hte_devices' = hte_devices + 1
    /\ hte_lock' = 0
    /\ Return(t, "register", NoLine, 0, FALSE, FALSE)
    /\ UNCHANGED <<chanVars, mutex, ts_req, modRef, modLive, gdevFreed, chip,
                   desc, ghostVars, labelVars, tegraVars>>

\* hte_unregister_chip by caller t, for a chip whose registration has
\* returned: spin_lock(&hte_lock) returns
UnregisterLock(t) ==
    /\ pc[t] = "idle"
    /\ hte_devices > 0
    /\ ~gdevFreed
    /\ hte_lock = 0
    /\ hte_lock' = t
    /\ pc' = [pc EXCEPT ![t] = "unreg_del"]
    /\ op' = [op EXCEPT ![t] = [NoOp EXCEPT !.kind = "unreg"]]
    /\ last' = NoLast
    /\ UNCHANGED <<chanVars, mutex, ts_req, modRef, modLive, gdevFreed, chip,
                   hte_devices, desc, ghostVars, labelVars, tegraVars>>

\* hte_unregister_chip: list_del, spin_unlock(&hte_lock), gdev->chip = NULL,
\* kfree(gdev), return 0
UnregisterDel(t) ==
    /\ pc[t] = "unreg_del"
    /\ hte_devices' = hte_devices - 1
    /\ hte_lock' = 0
    /\ gdevFreed' = TRUE
    /\ Return(t, "unreg", NoLine, 0, FALSE, FALSE)
    /\ UNCHANGED <<chanVars, mutex, ts_req, modRef, modLive, chip, desc,
                   ghostVars, labelVars, tegraVars>>

\* the error a request returns when of_node_to_htedevice finds no device:
\* hte_req_ts_by_hte_name replaces it by -ENOTSUPP, __hte_req_ts (under
\* devm_of_hte_request_ts) passes the -ENODEV on
LookupMissRet(byName) == IF byName THEN 0 - ENOTSUPP ELSE 0 - ENODEV

\* of_node_to_htedevice, called first by every request:
\* spin_lock(&hte_lock) returns
ReqLookup(t) ==
    /\ pc[t] = "idle"
    /\ hte_lock = 0
    /\ hte_lock' = t
    /\ pc' = [pc EXCEPT ![t] = "req_look"]
    /\ op' = [op EXCEPT ![t] = [NoOp EXCEPT !.kind = "req"]]
    /\ last' = NoLast
    /\ UNCHANGED <<chanVars, mutex, ts_req, modRef, modLive, gdevFreed, chip,
                   hte_devices, desc, ghostVars, labelVars, tegraVars>>

\* of_node_to_htedevice that returns the device it found without
\* spin_unlock(&hte_lock)
ReqLookupDone_NoUnlock(t, byName) ==
    /\ pc[t] = "req_look"
    /\ IF hte_devices > 0
       THEN /\ Goto(t, "req_found")
            /\ UNCHANGED hte_lock
       ELSE /\ hte_lock' = 0
            /\ Return(t, "req", NoLine, LookupMissRet(byName), FALSE, FALSE)
    /\ UNCHANGED <<chanVars, mutex, ts_req, modRef, modLive, gdevFreed, chip,
                   hte_devices, desc, ghostVars, labelVars, tegraVars>>

\* of_node_to_htedevice: the list is walked, spin_unlock(&hte_lock); the
\* device is returned without a reference, or the request returns the error
ReqLookupDone(t, byName) ==
    /\ pc[t] = "req_look"
    /\ hte_lock' = 0
    /\ IF hte_devices > 0
       THEN Goto(t, "req_found")
       ELSE Return(t, "req", NoLine, LookupMissRet(byName), FALSE, FALSE)
    /\ UNCHANGED <<chanVars, mutex, ts_req, modRef, modLive, gdevFreed, chip,
                   hte_devices, desc, ghostVars, labelVars, tegraVars>>

\* a request that found the device goes on after hte_unregister_chip freed
\* it: gdev->chip, gdev->owner and the line's lock are read from freed
\* memory and what is found there decides the result
ReqFreed(t, r) ==
    /\ pc[t] = "req_found"
    /\ gdevFreed
    /\ pc' = [pc EXCEPT ![t] = "idle"]
    /\ op' = [op EXCEPT ![t] = NoOp]
    /\ last' = Last("req_freed", NoLine, r, FALSE, FALSE, FALSE, FALSE)
    /\ UNCHANGED <<chanVars, mutex, devVars, desc, ghostVars, labelVars, tegraVars>>

\* hte_unregister_chip, called by the provider (tegra_hte_remove, the devm
\* action): no test of ts_req or of the registered lines; gdev is unlinked
\* and freed, chip->gdev keeps its value
UnregisterChip ==
    /\ ~gdevFreed
    /\ gdevFreed' = TRUE
    /\ hte_devices' = hte_devices - 1
    /\ UNCHANGED <<chip, hte_lock>>
    /\ last' = Last("unreg", NoLine, 0, FALSE, FALSE, FALSE, FALSE)
    /\ UNCHANGED <<chanVars, mutex, ts_req, modRef, modLive, desc, callVars,
                   ghostVars, labelVars, tegraVars>>

\* hte_push_ts_ns after hte_unregister_chip: chip->gdev is not NULL, so ei
\* points into the freed gdev; the lock, ei->seq++ and the flag test work on
\* freed memory and what is found there decides the result
PushFreed(id, st) ==
    /\ gdevFreed
    /\ ~PushRejects(id)
    /\ last' = Last("push_freed", id, st, FALSE, FALSE, FALSE, FALSE)
    /\ UNCHANGED <<chanVars, mutex, devVars, desc, callVars, ghostVars, labelVars, tegraVars>>

\* request and release calls by the callers T through the descriptors D
Calls(T, D) ==
    \/ \E t \in T, d \in D, id \in UsedLines, w \in BOOLEAN : ReqCall(t, d, id, w)
    \/ \E t \in T : ReqInUse(t)
    \/ \E t \in T : ReqThreadFail(t)
    \/ \E t \in T, r \in HookRets : ReqHook(t, r)
    \/ \E t \in T, d \in D : RelCall(t, d)
    \/ \E t \in T : RelNotRegistered(t)
    \/ \E t \in T, r \in HookRets : RelHook(t, r)
    \/ \E t \in T : RelStop(t)
    \/ \E t \in T : RelClear(t)
    \/ \E t \in T : RelFinish(t)

\* enable and disable calls by the callers T through the descriptors D
EnDis(T, D) ==
    \/ \E t \in T, d \in D, en \in BOOLEAN : EnDisCall(t, d, en)
    \/ \E t \in T : EnDisLock(t)
    \/ \E t \in T, r \in HookRets : EnDisHook(t, r)

\* the provider pushes timestamps for lines of the table; the workers run
Pushes ==
    \/ \E id \in UsedLines, r \in CbRets : Push(id, r)
    \/ \E c \in Lines : WorkerWait(c)
    \/ \E c \in Lines : WorkerTcb(c)

\* every caller requests and releases through every descriptor, caller 1
\* also enables and disables; ids inside the table
Next == Calls(Threads, Descs) \/ EnDis({1}, Descs) \/ Pushes

Spec == Init /\ [][Next]_vars

\* one caller; ids up to and past the end of the table.  RelNotRegistered
\* needs a second caller: a descriptor references a line of the table only
\* while the line is registered through it
NextBounds ==
    \/ \E d \in Descs, id \in ConIds, w \in BOOLEAN : ReqCall(1, d, id, w)
    \/ ReqInUse(1)
    \/ ReqThreadFail(1)
    \/ \E r \in HookRets : ReqHook(1, r)
    \/ \E r \in {0, 0 - EUSERS} : ReqOutOfBounds(1, r)
    \/ \E d \in Descs : RelCall(1, d)
    \/ \E r \in HookRets : RelHook(1, r)
    \/ RelStop(1)
    \/ RelClear(1)
    \/ RelFinish(1)
    \/ \E d \in Descs, en \in BOOLEAN : EnDisCall(1, d, en)
    \/ EnDisLock(1)
    \/ \E r \in HookRets : EnDisHook(1, r)
    \/ \E r \in {0, 0 - EINVAL, 0 - EUSERS} : DescOutOfBounds(1, r)
    \/ \E id \in PushIds : PushInvalid(id)
    \/ \E id \in PushIds, st \in {0, 0 - EINVAL} : PushOutOfBounds(id, st)
    \/ \E id \in PushIds, r \in CbRets : Push(id, r)
    \/ \E c \in Lines : WorkerWait(c)
    \/ \E c \in Lines : WorkerTcb(c)
    \/ ModuleGoing

SpecBounds == Init /\ [][NextBounds]_vars

\* raw timestamp values the provider pushes in the end-to-end scenario
E2EValues == <<100, 200, 300>>

\* end-to-end scenario on a fresh device: one consumer requests line E2ELine
\* without a threaded callback, the provider pushes E2EValues in order while
\* the line is registered, the callback returning HTE_CB_HANDLED; the
\* consumer releases; the provider pushes once more, no call being in
\* progress.  The provider hooks succeed.  Timestamps for the other,
\* unrequested lines arrive in between.
NextE2E ==
    \/ seq[E2ELine] = 0 /\ \E d \in Descs : ReqCall(1, d, E2ELine, FALSE)
    \/ ReqHook(1, 0)
    \/ /\ registered[E2ELine]
       /\ seq[E2ELine] < Len(E2EValues)
       /\ PushTs(E2ELine, E2EValues[seq[E2ELine] + 1], "HTE_CB_HANDLED",
                 Len(E2EValues))
    \/ /\ ~registered[E2ELine] /\ pc[1] = "idle"
       /\ \E v \in {E2EValues[i] : i \in 1 .. Len(E2EValues)} :
             PushTs(E2ELine, v, "HTE_CB_HANDLED", 1)
    \/ \E id \in Lines \ {E2ELine}, r \in CbRets : Push(id, r)
    \/ \E d \in Descs : RelCall(1, d)
    \/ RelHook(1, 0)
    \/ RelStop(1)
    \/ RelClear(1)
    \/ RelFinish(1)

SpecE2E == Init /\ [][NextE2E]_vars

\* drop accounting: one consumer requests and releases the used lines, with
\* or without a threaded callback, the provider hooks returning anything; up
\* to DropPushes timestamps are pushed per line at any time, the callback
\* returning anything; nobody disables a line
NextDrop ==
    \/ \E d \in Descs, id \in UsedLines, w \in BOOLEAN : ReqCall(1, d, id, w)
    \/ ReqInUse(1)
    \/ ReqThreadFail(1)
    \/ \E r \in HookRets : ReqHook(1, r)
    \/ \E id \in UsedLines, r \in CbRets : PushTs(id, 0, r, DropPushes)
    \/ \E c \in Lines : WorkerWait(c)
    \/ \E c \in Lines : WorkerTcb(c)
    \/ \E d \in Descs : RelCall(1, d)
    \/ \E r \in HookRets : RelHook(1, r)
    \/ RelStop(1)
    \/ RelClear(1)
    \/ RelFinish(1)

SpecDrop == Init /\ [][NextDrop]_vars

\* one consumer that always supplies a threaded callback; the scheduler is
\* fair to the worker: a task that can run eventually runs
NextLive ==
    \/ \E d \in Descs, id \in UsedLines : \E w \in BOOLEAN : ReqCall(1, d, id, w)
    \/ ReqInUse(1)
    \/ ReqThreadFail(1)
    \/ \E r \in HookRets : ReqHook(1, r)
    \/ \E id \in UsedLines, r \in CbRets : Push(id, r)
    \/ \E c \in Lines : WorkerWait(c)
    \/ \E c \in Lines : WorkerTcb(c)
    \/ \E d \in Descs : RelCall(1, d)
    \/ \E r \in HookRets : RelHook(1, r)
    \/ RelStop(1)
    \/ RelClear(1)
    \/ RelFinish(1)

SpecLive ==
    /\ Init /\ [][NextLive]_vars
    /\ \A c \in Lines : /\ WF_vars(WorkerWait(c))
                         /\ WF_vars(WorkerTcb(c))

\* callers that push one statement at a time while caller 1 requests and
\* releases
NextPush ==
    \/ \E d \in Descs, id \in UsedLines, w \in BOOLEAN : ReqCall(1, d, id, w)
    \/ ReqInUse(1)
    \/ ReqThreadFail(1)
    \/ \E r \in HookRets : ReqHook(1, r)
    \/ \E t \in Threads, id \in UsedLines : PushCall(t, id)
    \/ \E t \in Threads : PushLock(t)
    \/ \E t \in Threads : PushTest(t)
    \/ \E t \in Threads, r \in CbRets : PushCbReturn(t, r)
    \/ \E c \in Lines : WorkerWait(c)
    \/ \E c \in Lines : WorkerTcb(c)
    \/ \E d \in Descs : RelCall(1, d)
    \/ \E r \in HookRets : RelHook(1, r)
    \/ RelStop(1)
    \/ RelClear(1)
    \/ RelFinish(1)

SpecPush == Init /\ [][NextPush]_vars


\* one consumer, the pushes and a provider that may remove its chip at any
\* moment; the calls modelled for a live gdev are taken while it is live
NextUnreg ==
    \/ ~gdevFreed /\ \E d \in Descs, id \in UsedLines, w \in BOOLEAN :
                        ReqCall(1, d, id, w)
    \/ ~gdevFreed /\ ReqInUse(1)
    \/ ~gdevFreed /\ ReqThreadFail(1)
    \/ ~gdevFreed /\ \E r \in HookRets : ReqHook(1, r)
    \/ ~gdevFreed /\ \E id \in UsedLines, r \in CbRets : Push(id, r)
    \/ ~gdevFreed /\ \E c \in Lines : WorkerWait(c)
    \/ ~gdevFreed /\ \E c \in Lines : WorkerTcb(c)
    \/ ~gdevFreed /\ \E d \in Descs : RelCall(1, d)
    \/ ~gdevFreed /\ \E r \in HookRets : RelHook(1, r)
    \/ ~gdevFreed /\ RelStop(1)
    \/ ~gdevFreed /\ RelClear(1)
    \/ ~gdevFreed /\ RelFinish(1)
    \/ ~gdevFreed /\ ModuleGoing
    \/ UnregisterChip
    \/ \E id \in UsedLines, st \in {0, 0 - EINVAL} : PushFreed(id, st)

SpecUnreg == Init /\ [][NextUnreg]_vars


\* a provider registers its chip, whatever hooks it has, and one consumer
\* uses it once it is registered
NextReg ==
    \/ \E devOk, allocOk \in BOOLEAN : RegisterChip(devOk, allocOk)
    \/ chip.gdev /\ \E d \in Descs, id \in UsedLines : ReqCall(1, d, id, FALSE)
    \/ chip.gdev /\ ReqInUse(1)
    \/ chip.gdev /\ \E r \in HookRets : ReqHook(1, r)
    \/ chip.gdev /\ \E id \in UsedLines, r \in CbRets : Push(id, r)
    \/ chip.gdev /\ \E d \in Descs : RelCall(1, d)
    \/ chip.gdev /\ \E r \in HookRets : RelHook(1, r)
    \/ chip.gdev /\ RelStop(1)
    \/ chip.gdev /\ RelClear(1)
    \/ chip.gdev /\ RelFinish(1)
    \/ chip.gdev /\ \E d \in Descs, en \in BOOLEAN : EnDisCall(1, d, en)
    \/ chip.gdev /\ EnDisLock(1)
    \/ chip.gdev /\ \E r \in HookRets : EnDisHook(1, r)
    \/ chip.gdev /\ EnDisNullHook(1)

SpecReg == InitReg /\ [][NextReg]_vars


\* two consumers that request, release, enable and disable while every
\* caller may push one statement at a time
NextRace ==
    \/ \E t \in Threads, d \in Descs, id \in UsedLines : ReqCall(t, d, id, FALSE)
    \/ \E t \in Threads : ReqInUse(t)
    \/ \E t \in Threads, r \in HookRets : ReqHook(t, r)
    \/ \E t \in Threads, id \in UsedLines : PushCall(t, id)
    \/ \E t \in Threads : PushLock(t)
    \/ \E t \in Threads : PushTest(t)
    \/ \E t \in Threads, r \in CbRets : PushCbReturn(t, r)
    \/ \E t \in Threads, d \in Descs : RelCall(t, d)
    \/ \E t \in Threads : RelNotRegistered(t)
    \/ \E t \in Threads, r \in HookRets : RelHook(t, r)
    \/ \E t \in Threads : RelStop(t)
    \/ \E t \in Threads : RelClear(t)
    \/ \E t \in Threads : RelFinish(t)
    \/ EnDis({1}, Descs)

SpecRace == Init /\ [][NextRace]_vars


\* the same steps with what the scheduling gives: a caller that holds
\* ei->slock goes on until it has released it (ei->cb returns), the worker
\* runs and ei->tcb returns, the releasing caller runs, and the queued
\* spinlock lets it in between two pushes
SpecJoin ==
    /\ Init /\ [][NextPush]_vars
    /\ \A c \in Lines : WF_vars(WorkerWait(c)) /\ WF_vars(WorkerTcb(c))
    /\ \A t \in Threads : /\ WF_vars(PushTest(t))
                          /\ WF_vars(\E r \in CbRets : PushCbReturn(t, r))
    /\ SF_vars(\E r \in HookRets : RelHook(1, r))
    /\ WF_vars(RelStop(1))
    /\ WF_vars(RelClear(1))
    /\ WF_vars(RelFinish(1))


\* ------------------------------------------------------------ properties
TypeOK ==
    /\ teten \in [Slices -> TgRegs]
    /\ r_val \in [Slices -> TgRegs]
    /\ sl_flags \in [Slices -> BOOLEAN]
    /\ s_lock \in [Slices -> 0 .. TgPm]
    /\ tg_pc \in [Threads -> {"idle", "lock", "test", "oob"}]
    /\ pm_pc \in {"on", "s_lock", "s_save", "off", "r_lock", "r_write",
                  "r_clear"}
    /\ pm_i \in 0 .. TgSlices
    /\ desc_name \in [Descs -> {"null", "consumer", "core", "freed"}]
    /\ hte_name \in [Lines -> BOOLEAN]
    /\ registered \in [Lines -> BOOLEAN]
    /\ disabled \in [Lines -> BOOLEAN]
    /\ seq \in [Lines -> 0 .. MaxSeq]
    /\ dropped \in [Lines -> 0 .. MaxSeq]
    /\ mutex \in [Lines -> {0} \cup Threads]
    /\ ts_req \in Nat
    /\ modRef \in Nat
    /\ gdevFreed \in BOOLEAN
    /\ hte_devices \in 0 .. 1
    /\ hte_lock \in 0 .. NThreads
    /\ desc \in [Descs -> {NoLine} \cup (0 .. NLines)]
    /\ pc \in [Threads -> {"idle", "req_lock", "req_oob", "rel_lock", "rel_oob",
                           "rel_stop", "rel_join", "rel_put", "ed_lock", "ed_oob",
                           "ed_hook", "ed_spin", "ed_test",
                           "reg_spin", "reg_add", "unreg_del", "req_look",
                           "req_found",
                           "push_spin", "push_seq", "push_cb", "crashed"}]

\* C1: a line is granted to at most one request until it is released: of the
\* requests made while the line was unregistered, one returns 0 and every
\* other one that the provider hook and the thread setup did not fail returns
\* -EUSERS, the line staying registered to the one that was granted.
C1_SingleRegistration ==
    /\ \A c \in Lines : grants[c] <= 1 /\ (registered[c] <=> grants[c] = 1)
    /\ (last.ev = "req" /\ last.fresh /\ last.ret \notin {0 - ENOMEM, 0 - EBUSY})
         => /\ last.ret \in {0, 0 - EUSERS}
            /\ registered[last.line]
            /\ cl_data[last.line] # NULL
    /\ (last.ev = "req" /\ last.line \in Lines /\ last.ret = 0 - EUSERS)
         => last.reg

\* C1 witness: a request made while the line was unregistered lost the race
\* and returned -EUSERS; the line is registered to the other caller
C1_Witness ==
    /\ last.ev = "req" /\ last.fresh /\ last.ret = 0 - EUSERS
    /\ grants[last.line] = 1
    /\ cl_data[last.line] # NULL

\* C2 as stated: the N-th timestamp handed to the primary callback since the
\* request carries sequence N-1
C2_NthCarriesNMinus1 ==
    \A c \in Lines : \A i \in 1 .. Len(delivered[c]) : delivered[c][i] = i - 1

\* C2: the sequence numbers handed to the primary callback within one
\* registration are strictly increasing, so there is no duplicate and no
\* regression, and the N-th of them is at least N-1
C2_SeqIncreasing ==
    \A c \in Lines : \A i \in 1 .. Len(delivered[c]) :
        /\ delivered[c][i] >= i - 1
        /\ delivered[c][i] < seq[c]
        /\ i > 1 => delivered[c][i] > delivered[c][i - 1]

\* C2 witness: two timestamps were delivered in one registration, with a gap
\* in their sequence numbers
C2_Witness ==
    \E c \in Lines : /\ registered[c]
                      /\ Len(delivered[c]) >= 2
                      /\ delivered[c][2] > delivered[c][1] + 1

\* C3 as stated: when a request returns success the line is registered and
\* its seq and dropped_ts are 0
C3_RequestZeroes ==
    (last.ev = "req" /\ last.ret = 0 /\ last.line \in Lines)
        => /\ registered[last.line]
           /\ seq[last.line] = 0
           /\ dropped[last.line] = 0

\* C4 as stated: when a release of a registered line returns, the line is
\* unregistered, seq and dropped_ts are 0 and no worker is left
C4_ReleaseResets ==
    (last.ev = "rel" /\ last.line \in Lines /\ last.reg)
        => /\ ~registered[last.line]
           /\ seq[last.line] = 0
           /\ dropped[last.line] = 0
           /\ thread[last.line] = "null"

\* C5 as stated: a release of a registered line whose provider hook failed
\* reports the failure and still frees the software state
C5_ReleaseNotAborted ==
    (last.ev = "rel" /\ last.line \in Lines /\ last.reg /\ last.ret # 0)
        => /\ ~registered[last.line]
           /\ cb[last.line] = NULL /\ tcb[last.line] = NULL
           /\ cl_data[last.line] = NULL
           /\ desc # [d \in Descs |-> last.line]

\* C6 as stated: a release that does not find a registered line returns
\* -EUSERS
C6_ReturnsNotRegistered ==
    (last.ev = "rel" /\ ~last.reg) => last.ret = 0 - EUSERS

\* C6: a release that does not find a registered line changes nothing and
\* returns -EINVAL when the descriptor references no line (never requested,
\* or already released), -EUSERS when the descriptor's line was released
\* by a concurrent call after this one had read the descriptor
C6_ReleaseUnregistered ==
    [][(last'.ev = "rel" /\ ~last'.reg)
         => /\ last'.ret = (IF last'.line = NoLine THEN 0 - EINVAL ELSE 0 - EUSERS)
            /\ UNCHANGED <<chanVars, mutex, devVars, desc, ghostVars, labelVars, tegraVars>>]_vars

\* C6 witness: the second of two concurrent releases through one descriptor
\* returned -EUSERS
C6_Witness ==
    /\ last.ev = "rel" /\ ~last.reg /\ last.ret = 0 - EUSERS
    /\ last.line \in Lines /\ ~registered[last.line]

C8_EnabledAfterRequest ==
    (last.ev = "req" /\ last.ret = 0 /\ last.line \in Lines)
        => ~disabled[last.line]

\* C9 as stated: a push to a line of the table that is unregistered or
\* disabled returns a non-failure result and does not call the primary
\* callback
C9_IgnoredIsNotFailure ==
    (last.ev = "push" /\ last.line \in Lines /\ ~last.invoked)
        => last.ret >= 0

\* C9: a push to a line of the table that is unregistered or disabled does
\* not call the primary callback and returns -EINVAL, the value invalid
\* arguments return; every other push to a line of the table calls the
\* callback and returns 0
C9_UnknownPushIsEinval ==
    (last.ev = "push" /\ last.line \in Lines)
        => IF ~registered[last.line] \/ disabled[last.line]
           THEN last.ret = 0 - EINVAL /\ ~last.invoked
           ELSE last.ret = 0 /\ last.invoked

\* C9 witness: a push arrived on a line that is not registered
C9_Witness ==
    /\ last.ev = "push" /\ last.line \in Lines
    /\ ~registered[last.line] /\ ~last.reg
    /\ seq[last.line] > 0

\* C10 as stated: a push with an id at or past the end of the table returns
\* -EINVAL and accesses no memory past the table
C10_PushBoundChecked ==
    (last.ev = "push" /\ last.line >= NLines)
        => last.ret = 0 - EINVAL /\ ~last.oob

\* C11 as stated: a request whose translated id is at or past the end of the
\* table returns -EINVAL without accessing memory past the table, so every
\* descriptor of a granted request references a line of the table
C11_RequestBoundChecked ==
    /\ \A d \in Descs : desc[d] \in {NoLine} \cup Lines
    /\ (last.ev = "req" /\ last.line >= NLines)
         => last.ret = 0 - EINVAL /\ ~last.oob

C13_DropAccounting ==
    \A c \in Lines :
        /\ registered[c] => dropped[c] = cbDropped[c]
        /\ cbDropped[c] <= Len(delivered[c])
        /\ (registered[c] /\ Len(delivered[c]) > 0)
              => seq[c] = delivered[c][1] + Len(delivered[c])
        /\ (registered[c] /\ Len(delivered[c]) > 0 /\ delivered[c][1] = 0
              /\ cbDropped[c] = Len(delivered[c]))
              => dropped[c] = seq[c]

\* C13 witness: DropPushes pushes on a line requested with seq 0, each
\* reported dropped by the callback
C13_Witness ==
    \E c \in Lines : /\ registered[c]
                     /\ Len(delivered[c]) = DropPushes
                     /\ delivered[c][1] = 0
                     /\ cbDropped[c] = DropPushes
                     /\ dropped[c] = DropPushes /\ seq[c] = DropPushes

\* C14 as stated: under fair scheduling a set HTE_CB_RUN_THREAD flag is
\* eventually served: the worker executes the threaded callback after the
\* push that set it
C14_RunFlagServed ==
    \A c \in Lines : runFlag[c] ~> (thread[c] = "tcb")

\* the callers that are inside ei->cb of line c
InCallback(c) == {t \in Threads : pc[t] = "push_cb" /\ op[t].line = c}

\* C15: on one line at most one push caller is inside the primary callback
\* at any moment, and within one registration the callback is handed the
\* sequence numbers in the order the callers took ei->slock: each is larger
\* than the one before it
C15_CallbackSerialized ==
    \A c \in Lines :
        /\ Cardinality(InCallback(c)) <= 1
        /\ \A i \in 2 .. Len(delivered[c]) : delivered[c][i] > delivered[c][i - 1]
        /\ \A t \in InCallback(c) :
              /\ Len(delivered[c]) > 0
              /\ delivered[c][Len(delivered[c])] = op[t].seqno

\* C15 witness: a caller is inside the callback of a line that has already
\* delivered a timestamp in this registration, while another caller of
\* hte_push_ts_ns spins on the same ei->slock
C15_Witness ==
    \E c \in Lines, t, u \in Threads :
        /\ t # u
        /\ pc[t] = "push_cb" /\ op[t].line = c
        /\ pc[u] = "push_spin" /\ op[u].line = c
        /\ Len(delivered[c]) >= 2

\* C16 as stated: whenever the worker invokes the secondary callback, ei->tcb
\* is non-null and the context it passes is the one of a registration whose
\* release has not returned yet; the worker never calls a NULL ei->tcb
C16_TcbSeesLiveState ==
    \A c \in Lines :
        /\ thread[c] # "oops"
        /\ thread[c] = "tcb" =>
              /\ tcb[c] # NULL
              /\ cl_data[c] # NULL
              /\ registered[c] \/ mutex[c] # 0

\* C17 as stated: while a line of the device is registered or a module
\* reference taken by a request is still held, hte_unregister_chip has not
\* freed the device, and no push works on the lines of a freed device
C17_PinKeepsDeviceAlive ==
    /\ ((\E c \in Lines : registered[c]) \/ modRef > 0) => ~gdevFreed
    /\ last.ev # "push_freed"

\* a request on a line of the table has just failed at _hte_setup_thread
\* (-ENOMEM) or at chip->ops->request (the provider's error)
ReqJustFailed ==
    /\ last.ev = "req"
    /\ last.line \in Lines
    /\ last.ret \in {0 - ENOMEM} \cup {r \in HookRets : ReqHookFailed(r)}

\* C18 as stated: a request that failed at the creation of the worker or at
\* the provider's request hook has unwound completely: the module reference
\* is given back, ei->cb and ei->tcb are cleared and no worker is left, the
\* line is unregistered and gdev->ts_req counts the registered lines only
C18_FailedRequestUnwinds ==
    ReqJustFailed =>
        /\ modRef = Cardinality({c \in Lines : registered[c]})
                    + Cardinality({t \in Threads :
                                     pc[t] \in {"req_lock", "rel_stop", "rel_join",
                                              "rel_put"}})
        /\ cb[last.line] = NULL
        /\ tcb[last.line] = NULL
        /\ thread[last.line] = "null"
        /\ ~registered[last.line]
        /\ ts_req = Cardinality({c \in Lines : registered[c]})

\* C19: hte_enable_ts on a registered line that is not disabled, and
\* hte_disable_ts on a registered line that is disabled, return 0 without
\* calling the provider's hook and leave the flag, and the rest of the line
\* and device state, as they were, so that a second identical call leaves
\* the state the first one left
C19_EnDisIdempotent ==
    [][\A t \in Threads :
          (/\ pc[t] = "ed_lock"
           /\ pc'[t] # "ed_lock"
           /\ registered[op[t].line]
           /\ disabled[op[t].line] = ~op[t].en)
          => /\ pc'[t] = "idle"
             /\ last'.ev = op[t].kind
             /\ last'.ret = 0
             /\ ~last'.hook
             /\ UNCHANGED <<chanVars, mutex, devVars, desc>>]_vars

\* C19 witness: hte_disable_ts has returned 0 on a registered line that was
\* already disabled, without a call of chip->ops->disable
C19_Witness ==
    /\ last.ev = "disable"
    /\ last.line \in Lines
    /\ last.ret = 0
    /\ last.reg
    /\ ~last.hook
    /\ disabled[last.line]

\* C20: when chip->ops->enable or chip->ops->disable returns an error,
\* hte_enable_ts / hte_disable_ts returns that error, HTE_TS_DISABLE keeps
\* the value it had before the call, and req_mlock and slock are free on
\* return
C20_EnDisHookFailure ==
    [][\A t \in Threads :
          (/\ pc[t] = "ed_hook"
           /\ pc'[t] = "idle"
           /\ last'.ret # 0)
          => /\ last'.ev = op[t].kind
             /\ last'.hook
             /\ last'.ret \in HookRets
             /\ disabled' = disabled
             /\ disabled'[op[t].line] = op[t].en
             /\ mutex'[op[t].line] = 0
             /\ ~SlockHeld(op[t].line)']_vars

\* C20 witness: hte_enable_ts or hte_disable_ts has returned the error of
\* the provider's hook and the flag still has the value the call wanted to
\* change
C20_Witness ==
    /\ last.ev \in {"enable", "disable"}
    /\ last.line \in Lines
    /\ last.hook
    /\ last.ret # 0
    /\ disabled[last.line] = (last.ev = "enable")
    /\ mutex[last.line] = 0

\* C21: hte_register_chip returns -EINVAL, sets no chip->gdev and adds
\* nothing to hte_devices whenever chip->ops->request or chip->ops->release
\* is NULL; when it returns 0 the device is on the list and a chip that came
\* without xlate has hte_simple_xlate, one that came with its own keeps it
C21_RegisterChecksOps ==
    [][last'.ev = "register" =>
          /\ (~chip.request \/ ~chip.release) =>
                /\ last'.ret = 0 - EINVAL
                /\ UNCHANGED <<chip, hte_devices, chanVars, mutex>>
          /\ last'.ret = 0 =>
                /\ chip'.gdev
                /\ hte_devices' = hte_devices + 1
                /\ chip'.xlate = IF chip.xlate = "NULL"
                                 THEN "hte_simple_xlate" ELSE chip.xlate]_vars

\* C21 witness: hte_register_chip has refused a chip that has a request
\* hook and no release hook, and nothing was registered
C21_Witness ==
    /\ last.ev = "register"
    /\ last.ret = 0 - EINVAL
    /\ chip.request /\ ~chip.release
    /\ ~chip.gdev
    /\ hte_devices = 0

\* C22 as stated: on a chip that hte_register_chip accepted no call of the
\* API ends in a call through a NULL pointer; hte_enable_ts and
\* hte_disable_ts on a registered line return a result also when the
\* provider left chip->ops->enable and chip->ops->disable NULL
C22_NoCrashOnAcceptedChip ==
    \A t \in Threads : pc[t] # "crashed"

\* C23: a push with an id inside the table adds exactly one to ei->seq, at
\* the moment it has taken ei->slock, and data->seq gets the value ei->seq
\* had before; the later steps of the push, whatever the flags and whatever
\* ei->cb returns, leave ei->seq alone
C23_PushCountsOnce ==
    [][\A t \in Threads :
          /\ (pc[t] = "push_spin" /\ pc'[t] # "push_spin") =>
                /\ pc'[t] = "push_seq"
                /\ seq'[op[t].line] = seq[op[t].line] + 1
                /\ op'[t].seqno = seq[op[t].line]
          /\ (pc[t] \in {"push_seq", "push_cb"} /\ pc'[t] # pc[t]) =>
                /\ seq' = seq
                /\ pc'[t] \in {"push_cb", "idle"}
                /\ pc'[t] = "push_cb" => op'[t].seqno = op[t].seqno]_vars

\* C23 witness: a push on a line that is not registered, or is disabled, has
\* taken a sequence number after an earlier push had taken one
C23_Witness ==
    \E t \in Threads :
        /\ pc[t] = "push_seq"
        /\ ~registered[op[t].line] \/ disabled[op[t].line]
        /\ op[t].seqno >= 1
        /\ seq[op[t].line] = op[t].seqno + 1

\* C24: a worker in _hte_wait_for_ts_data that sees kthread_should_stop()
\* with HTE_CB_RUN_THREAD set clears the bit and calls ei->tcb once more; it
\* leaves the loop and exits only when it sees the stop request with the bit
\* clear
C24_FinalWakeServed ==
    [][\A c \in Lines :
          /\ (thread[c] = "wait" /\ shouldStop[c] /\ runFlag[c]
              /\ thread'[c] # "wait") =>
                /\ thread'[c] = "tcb"
                /\ ~runFlag'[c]
          /\ (thread[c] = "wait" /\ thread'[c] = "exited") =>
                /\ shouldStop[c]
                /\ ~runFlag[c]]_vars

\* C24 witness: the worker is inside ei->tcb after the stop request was
\* made: the wake that came with the stop was served
C24_Witness ==
    \E c \in Lines : thread[c] = "tcb" /\ shouldStop[c] /\ ~runFlag[c]

\* C25: hte_release_ts holds ei->slock only for the reset, not while
\* kthread_stop waits for the worker, and every call of it returns: a caller
\* inside hte_release_ts is eventually back outside, with pushes and a
\* worker running beside it
C25_ReleaseReturns ==
    \A t \in Threads :
        (pc[t] \in {"rel_lock", "rel_stop", "rel_join", "rel_put"})
            ~> (pc[t] = "idle")

\* C25 witness: the releasing caller waits for a worker that is inside
\* ei->tcb while another caller is inside hte_push_ts_ns on the same line
C25_Witness ==
    \E t, u \in Threads, c \in Lines :
        /\ pc[t] = "rel_join" /\ op[t].line = c
        /\ thread[c] = "tcb"
        /\ pc[u] \in {"push_spin", "push_seq"} /\ op[u].line = c


CountLines == 0 .. (NCount - 1)

NextCount ==
    \/ \E t \in Threads, d \in Descs, id \in CountLines, w \in BOOLEAN :
          ReqCall(t, d, id, w)
    \/ \E t \in Threads : ReqInUse(t)
    \/ \E t \in Threads : ReqThreadFail(t)
    \/ \E t \in Threads, r \in HookRets : ReqHook(t, r)
    \/ \E t \in Threads, d \in Descs : RelCall(t, d)
    \/ \E t \in Threads : RelNotRegistered(t)
    \/ \E t \in Threads, r \in HookRets : RelHook(t, r)
    \/ \E t \in Threads : RelStop(t)
    \/ \E t \in Threads : RelClear(t)
    \/ \E t \in Threads : RelFinish(t)

SpecCount == Init /\ [][NextCount]_vars

\* a caller is inside ___hte_req_ts or hte_release_ts
ReqRelInProgress(t) ==
    pc[t] \in {"req_lock", "req_oob", "rel_lock", "rel_oob", "rel_stop",
               "rel_join", "rel_put"}

\* C27: gdev->ts_req is never negative, and whenever no request and no
\* release is in progress it equals the number of lines with
\* HTE_TS_REGISTERED set
C27_InUseCount ==
    /\ ts_req >= 0
    /\ (\A t \in Threads : ~ReqRelInProgress(t))
       => ts_req = Cardinality({c \in Lines : registered[c]})

\* a request or a release has just failed on a registered line and nothing
\* else is in progress
C27_Witness ==
    /\ \A t \in Threads : ~ReqRelInProgress(t)
    /\ last.ev \in {"req", "rel"}
    /\ last.ret < 0
    /\ last.line \in Lines
    /\ registered[last.line]
    /\ ts_req = NCount


\* C28: the module references taken by try_module_get in ___hte_req_ts are
\* never fewer than the registered lines, they cover gdev->ts_req, and when
\* no request and no release is in progress there is exactly one per
\* registered line, so a request that failed has put back the one it took
C28_PinsBalanced ==
    /\ modRef >= Cardinality({c \in Lines : registered[c]})
    /\ ts_req > 0 => modRef > 0
    /\ (\A t \in Threads : ~ReqRelInProgress(t))
       => modRef = Cardinality({c \in Lines : registered[c]})

\* a request has just failed while every line in use is registered and
\* nothing else is in progress
C28_Witness ==
    /\ \A t \in Threads : ~ReqRelInProgress(t)
    /\ last.ev = "req"
    /\ last.ret < 0
    /\ modRef = NCount
    /\ \A c \in CountLines : registered[c]


\* C29: while a push caller is inside ei->cb on a line, the line is
\* registered and not disabled, the callback and the context it was handed
\* are the ones stored by the request that registered the line, and no
\* release of the line has got past the clearing of HTE_TS_REGISTERED; a
\* release returns 0 on a line only when no caller is inside its callback
C29_CallbackWithinRegistration ==
    /\ \A t \in Threads :
         pc[t] = "push_cb" =>
           /\ registered[op[t].line]
           /\ ~disabled[op[t].line]
           /\ op[t].cbv # NULL
           /\ op[t].ctx # NULL
           /\ op[t].cbv = cb[op[t].line]
           /\ op[t].ctx = cl_data[op[t].line]
           /\ op[t].cbv = op[t].ctx
           /\ \A u \in Threads :
                ~(pc[u] \in {"rel_stop", "rel_join", "rel_put"}
                    /\ op[u].line = op[t].line)
    /\ (last.ev = "rel" /\ last.ret = 0 /\ last.line \in Lines)
       => InCallback(last.line) = {}

\* a caller is inside the callback of a line while another caller's release
\* of that line waits for ei->slock
C29_Witness ==
    \E t, u \in Threads :
        /\ pc[t] = "push_cb"
        /\ pc[u] = "rel_lock"
        /\ op[u].line = op[t].line
        /\ mutex[op[t].line] = 0
        /\ grants[op[t].line] > 0


\* C30: whenever no request and no release holds a line's req_mlock and the
\* line is unregistered, or registered without a secondary callback, the line
\* has no worker task
C30_WorkerOnlyWhileRegistered ==
    \A c \in Lines :
        (mutex[c] = 0 /\ (~registered[c] \/ tcb[c] = NULL))
        => thread[c] = "null"


\* Requests, releases and pushes by every caller, each a step per lock
\* acquisition, with hte_enable_ts / hte_disable_ts by caller 1 taken lock
\* by lock as well
NextLock ==
    \/ \E t \in Threads, d \in Descs, id \in UsedLines : ReqCall(t, d, id, FALSE)
    \/ \E t \in Threads : ReqInUse(t)
    \/ \E t \in Threads, r \in HookRets : ReqHook(t, r)
    \/ \E t \in Threads, id \in UsedLines : PushCall(t, id)
    \/ \E t \in Threads : PushLock(t)
    \/ \E t \in Threads : PushTest(t)
    \/ \E t \in Threads, r \in CbRets : PushCbReturn(t, r)
    \/ \E t \in Threads, d \in Descs : RelCall(t, d)
    \/ \E t \in Threads : RelNotRegistered(t)
    \/ \E t \in Threads, r \in HookRets : RelHook(t, r)
    \/ \E t \in Threads : RelStop(t)
    \/ \E t \in Threads : RelClear(t)
    \/ \E t \in Threads : RelFinish(t)
    \/ \E d \in Descs, en \in BOOLEAN : EnDisCall(1, d, en)
    \/ EnDisMutex(1)
    \/ EnDisSpin(1)
    \/ EnDisTest(1)
    \/ \E r \in HookRets : EnDisHook(1, r)

SpecLock == Init /\ [][NextLock]_vars

\* the state before hte_register_chip of a chip that has every hook and no
\* xlate of its own
InitRegistry ==
    /\ InitLines
    /\ chip = [RegisteredChip EXCEPT !.gdev = FALSE, !.xlate = "NULL"]
    /\ hte_devices = 0
    /\ desc_name = [d \in Descs |-> "consumer"]

\* The provider (caller 2) registers its chip, pushes and unregisters; the
\* consumer (caller 1) requests by either request function, the lookup and
\* the list operations being steps of their own, and releases
NextRegistry ==
    \/ \E devOk, allocOk \in BOOLEAN : RegisterCheck(2, devOk, allocOk)
    \/ RegisterLock(2)
    \/ RegisterAdd(2)
    \/ UnregisterLock(2)
    \/ UnregisterDel(2)
    \/ ReqLookup(1)
    \/ \E byName \in BOOLEAN : ReqLookupDone(1, byName)
    \/ /\ pc[1] = "req_found"
       /\ \E d \in Descs, id \in UsedLines : ReqCall(1, d, id, FALSE)
    \/ \E r \in {0, 0 - ENODEV, 0 - ENOTSUPP} : ReqFreed(1, r)
    \/ ModuleGoing
    \/ ~gdevFreed /\ ReqInUse(1)
    \/ ~gdevFreed /\ \E r \in HookRets : ReqHook(1, r)
    \/ ~gdevFreed /\ hte_devices > 0 /\ \E id \in UsedLines : PushCall(2, id)
    \/ ~gdevFreed /\ PushLock(2)
    \/ ~gdevFreed /\ PushTest(2)
    \/ ~gdevFreed /\ \E r \in CbRets : PushCbReturn(2, r)
    \/ ~gdevFreed /\ \E d \in Descs : RelCall(1, d)
    \/ ~gdevFreed /\ \E r \in HookRets : RelHook(1, r)
    \/ ~gdevFreed /\ RelStop(1)
    \/ ~gdevFreed /\ RelClear(1)
    \/ ~gdevFreed /\ RelFinish(1)

SpecRegistry == InitRegistry /\ [][NextRegistry]_vars

\* C31: a request that returns -EUSERS changes nothing of the line it found
\* registered (flags, callbacks, context, worker, seq, dropped_ts, ts_req),
\* gives back the module reference it took, and leaves a descriptor through
\* which the registration can still be released
C31_InUseLeavesRegistration ==
    [][(last'.ev = "req" /\ last'.ret = 0 - EUSERS)
       => /\ registered'[last'.line]
          /\ UNCHANGED <<chanVars, ts_req>>
          /\ modRef' = modRef - 1
          /\ \E d \in Descs : desc'[d] = last'.line]_vars


\* caller t calls a provider hook in this step: chip->ops->request,
\* chip->ops->release, chip->ops->enable or chip->ops->disable
HookStep(t) ==
    \/ pc[t] = "ed_hook" /\ pc'[t] # "ed_hook"
    \/ pc[t] = "req_lock" /\ pc'[t] = "idle" /\ last'.hook
    \/ pc[t] = "rel_lock" /\ pc'[t] = "idle" /\ last'.hook
    \/ pc[t] = "rel_lock" /\ pc'[t] = "rel_stop"

\* C32: a caller that calls a provider hook does not hold ei->slock; a step
\* of hte_push_ts_ns neither takes nor releases a req_mlock; and
\* HTE_TS_DISABLE is flipped only by an enable / disable whose hook has
\* returned, in a step that finds ei->slock free to take
C32_HooksOutsideSlock ==
    [][\A t \in Threads :
         /\ HookStep(t) => ~op[t].slk
         /\ (pc'[t] # pc[t] /\ (op[t].kind = "push" \/ op'[t].kind = "push"))
            => mutex' = mutex
         /\ (pc'[t] # pc[t] /\ disabled' # disabled)
            => /\ pc[t] = "ed_hook"
               /\ ~SlockHeld(op[t].line)]_vars

\* an enable / disable is about to call the provider's hook, holding
\* req_mlock, while a push on the same line holds ei->slock inside ei->cb
C32_Witness ==
    \E t, u \in Threads :
        /\ pc[t] = "ed_hook"
        /\ mutex[op[t].line] = t
        /\ pc[u] = "push_cb"
        /\ op[u].line = op[t].line
        /\ op[u].slk


\* caller t calls the chip's xlate in this step
XlateStep(t) == pc[t] = "req_found" /\ pc'[t] # "req_found"

\* caller t enters the consumer's callback ei->cb in this step
CallbackStep(t) == pc[t] = "push_seq" /\ pc'[t] = "push_cb"

\* C33: hte_lock is held only by a caller that is walking the list in
\* of_node_to_htedevice, adding to it in hte_register_chip or deleting from
\* it in hte_unregister_chip, so no caller that has returned holds it; and
\* a caller that calls a provider hook, the xlate function or a consumer
\* callback does not hold it
C33_RegistryLockScope ==
    [][/\ hte_lock' # 0 => pc'[hte_lock'] \in {"req_look", "reg_add", "unreg_del"}
       /\ \A t \in Threads :
            (HookStep(t) \/ XlateStep(t) \/ CallbackStep(t)) => hte_lock # t
       /\ hte_devices' # hte_devices
          => hte_lock # 0 /\ pc[hte_lock] \in {"reg_add", "unreg_del"}]_vars

\* a lookup holds hte_lock while hte_register_chip waits for it
C33_Witness ==
    /\ hte_lock = 1
    /\ pc[1] = "req_look"
    /\ pc[2] = "reg_spin"


\* C34: a lookup finds the device exactly when its hte_register_chip has
\* returned 0 and hte_unregister_chip has not removed it; a request whose
\* lookup finds no device, or whose try_module_get fails, returns -ENODEV
\* and leaves the lines, their locks, gdev->ts_req and the module references
\* as they were; and no request works on a device that has been unregistered
C34_LookupAndDeviceGone ==
    [][\A t \in Threads :
         /\ (pc[t] = "req_look" /\ pc'[t] # "req_look")
            => /\ (pc'[t] = "req_found")
                  <=> (/\ chip.gdev
                       /\ ~gdevFreed
                       /\ \A u \in Threads : pc[u] \notin {"reg_spin", "reg_add"})
               /\ pc'[t] = "idle"
                  => /\ last'.ev = "req"
                     /\ last'.ret = 0 - ENODEV
                     /\ UNCHANGED <<chanVars, mutex, ts_req, modRef>>
         /\ (pc[t] = "req_found" /\ pc'[t] # "req_found" /\ ~modLive)
            => /\ last'.ev = "req"
               /\ last'.ret = 0 - ENODEV
               /\ UNCHANGED <<chanVars, mutex, ts_req, modRef>>
         /\ last'.ev # "req_freed"]_vars


\* C35: no step of hte_enable_ts / hte_disable_ts, whether the call succeeds
\* or fails, changes HTE_TS_REGISTERED, ei->seq, ei->dropped_ts, ei->cb,
\* ei->tcb, ei->cl_data, the worker and its run flag, gdev->ts_req or the
\* module references; HTE_TS_DISABLE changes on the called line only
C35_EnDisFrame ==
    [][\A t \in Threads :
         (pc'[t] # pc[t] /\ ({op[t].kind, op'[t].kind}
                              \cap {"enable", "disable"} # {}))
         => /\ UNCHANGED <<registered, seq, dropped, cb, tcb, cl_data, thread,
                           shouldStop, runFlag, ts_req, modRef>>
            /\ \A c \in Lines : c # op[t].line => disabled'[c] = disabled[c]]_vars

\* an enable / disable has flipped the flag of a line that has a worker and
\* has counted timestamps
C35_Witness ==
    /\ last.ev \in {"enable", "disable"}
    /\ last.hook
    /\ last.ret = 0
    /\ last.line \in Lines
    /\ seq[last.line] > 0
    /\ thread[last.line] \in {"wait", "tcb"}
    /\ disabled[last.line] = (last.ev = "disable")


\* C36: when ei->cb returns HTE_CB_HANDLED or HTE_CB_ERROR the rest of the
\* push changes nothing of the line (ei->seq was incremented before the
\* callback; dropped_ts, the run flag, HTE_TS_REGISTERED and HTE_TS_DISABLE
\* stay), and when it returns HTE_RUN_THREADED_CB on a line whose ei->thread
\* is NULL the run flag is not set and no task is woken
C36_CallbackOutcomeFrame ==
    [][\A t \in Threads :
         (pc[t] = "push_cb" /\ pc'[t] = "idle")
         => /\ last'.cbret \in {"HTE_CB_HANDLED", "HTE_CB_ERROR"}
               => UNCHANGED <<chanVars, mutex, devVars>>
            /\ (last'.cbret = "HTE_RUN_THREADED_CB"
                  /\ thread[op[t].line] = "null")
               => UNCHANGED <<chanVars, mutex, devVars>>]_vars

\* the callback of a line registered without a worker has just returned
\* HTE_RUN_THREADED_CB, after timestamps were dropped on that line
C36_Witness ==
    /\ last.ev = "push"
    /\ last.cbret = "HTE_RUN_THREADED_CB"
    /\ last.line \in Lines
    /\ registered[last.line]
    /\ thread[last.line] = "null"
    /\ dropped[last.line] > 0


\* C37: when hte_release_ts has taken a line with a worker through
\* kthread_stop and clears ei->thread, HTE_CB_RUN_THREAD of the line is
\* clear, and it is still clear when the release returns 0
C37_RunFlagClearAfterRelease ==
    [][\A t \in Threads :
         /\ (pc[t] = "rel_join" /\ pc'[t] = "rel_put"
               /\ thread[op[t].line] # "null")
            => ~runFlag'[op[t].line]
         /\ (pc[t] = "rel_put" /\ pc'[t] = "idle")
            => runFlag'[op[t].line] = runFlag[op[t].line]]_vars

\* ---------------------------------------------------------------------
\* Labels: each descriptor starts with no label or with one the consumer
\* owns, and the callers request and release NCount lines through them,
\* without a secondary callback
InitLabel ==
    /\ InitLines
    /\ chip = RegisteredChip
    /\ hte_devices = 1
    /\ desc_name \in [Descs -> {"null", "consumer"}]

NextLabel ==
    \/ \E t \in Threads, d \in Descs, id \in CountLines : ReqCall(t, d, id, FALSE)
    \/ \E t \in Threads : ReqInUse(t)
    \/ \E t \in Threads, r \in HookRets : ReqHook(t, r)
    \/ \E t \in Threads, d \in Descs : RelCall(t, d)
    \/ \E t \in Threads : RelNotRegistered(t)
    \/ \E t \in Threads, r \in HookRets : RelHook(t, r)
    \/ \E t \in Threads : RelStop(t)
    \/ \E t \in Threads : RelClear(t)
    \/ \E t \in Threads : RelFinish(t)

SpecLabel == InitLabel /\ [][NextLabel]_vars

\* C38: release frees the descriptor's label exactly when the core allocated
\* it in the matching request, never a consumer's label, and no descriptor
\* is left holding a pointer to a freed label, so that no later request
\* reads a freed label and no later release frees one again
C38_LabelOwnership ==
    \A d \in Descs : desc_name[d] # "freed"

\* C39: whenever chip->ops->request returns a non-zero value, negative or
\* positive, the request fails: it returns an error, the line stays
\* unregistered and gdev->ts_req is unchanged
C39_NonZeroRequestHookFails ==
    [][\A t \in Threads, r \in HookRets \ {0} :
         ReqHook(t, r)
         => /\ last'.ret # 0
            /\ ~registered'[op[t].line]
            /\ ts_req' = ts_req]_vars

\* ---------------------------------------------------------------------
\* The Tegra194 provider alone: its hooks are called by every caller with
\* every line id, and the system suspends and resumes
NextTegra ==
    \/ \E t \in Threads, id \in TgIds, en \in BOOLEAN : TegraHookCall(t, id, en)
    \/ \E t \in Threads : TegraHookLock(t)
    \/ \E t \in Threads : TegraHookBody(t)
    \/ \E t \in Threads, r \in {0, 0 - EBUSY} : TegraHookOob(t, r)
    \/ TegraSuspendStart
    \/ TegraPmLock
    \/ TegraSuspendSave
    \/ TegraResumeStart
    \/ TegraResumeWrite
    \/ TegraResumeClear

SpecTegra == Init /\ [][NextTegra]_vars

\* C40: a hook call on a line that runs between tegra_hte_suspend_late and
\* tegra_hte_resume_early returns -EBUSY and leaves the TETEN registers as
\* they are; r_val is written only by suspend_late, with the value of the
\* slice's TETEN, resume_early writes r_val to TETEN, and HTE_SUSPEND of a
\* slice is cleared only after that write
C40_SuspendBusyAndRestore ==
    [][/\ \A t \in Threads :
            (pm_pc = "off" /\ tg_pc[t] = "test" /\ tg_pc'[t] = "idle")
            => tg_last'.ret = 0 - EBUSY /\ teten' = teten
       /\ \A s \in Slices :
            /\ r_val'[s] # r_val[s]
               => pm_pc = "s_save" /\ pm_i = s /\ r_val'[s] = teten[s]
            /\ (pm_pc = "r_write" /\ pm_pc' = "r_clear" /\ pm_i = s)
               => teten'[s] = r_val[s]
            /\ (sl_flags[s] /\ ~sl_flags'[s])
               => pm_pc = "r_clear" /\ teten[s] = r_val[s]]_vars

\* a hook call has just returned -EBUSY while the device is suspended with
\* a line enabled
C40_Witness ==
    /\ pm_pc = "off"
    /\ tg_last.ret = 0 - EBUSY
    /\ tg_last.line < TgNLines
    /\ \E s \in Slices : r_val[s] # 0 /\ teten[s] = r_val[s]
====
